---------------------------- MODULE Spec2Model ----------------------------
(***************************************************************************)
(* A model of the chunker of the Thucydides daily reader                   *)
(* (src/src/parser.py, ThucydidesParser.create_chunks and its helpers).    *)
(*                                                                         *)
(* A text is the sequence of segments that re.split(r'\n\s*\n', text)      *)
(* yields.  A segment is a record                                          *)
(*    kind    : "blank" (whitespace only), "book" (matches                 *)
(*              BOOK\s+[IVXLCDM]+ at its start), "chapter" (matches        *)
(*              CHAPTER\s+[IVXLCDM]+ at its start) or "para" (neither)     *)
(*    numeral : the roman numeral the marker's regular expression          *)
(*              captures, a sequence of one-letter strings                 *)
(*    len     : len() of the segment after clean_text                      *)
(*    words   : the number of whitespace-delimited tokens in it            *)
(*    src     : the segment's position in the text (it stands for the      *)
(*              segment's content: two segments are the same string iff    *)
(*              they agree on every field)                                 *)
(* The text of a passage, '\n\n'.join(paragraphs), is modelled by the      *)
(* sequence of the paragraphs joined; its length and its word count are    *)
(* computed from that sequence the way len() and split() compute them.     *)
(***************************************************************************)
EXTENDS Integers, Sequences, FiniteSets, TLC

\* The longest text explored, in segments (the pieces between blank lines).
MaxParas == 4

\* len('\n\n'), the separator of _finalize_chunk's join.
SepLen == 2

\* target_chunk_size / min_chunk_size / max_chunk_size of config.yaml, which
\* the repository's sources read and do not set: the documented ~2500
\* character target with its bounds, and a configuration of smaller sizes,
\* under which a paragraph alone can exceed max_size.
Configs ==
    { [target_size |-> 2500, min_size |-> 2000, max_size |-> 3000],
      [target_size |-> 1000, min_size |-> 400,  max_size |-> 2000] }

\* The roman numerals the markers of the explored texts carry.
Numerals == { <<"I">>, <<"I", "V">> }

\* The ordinary paragraphs of the explored texts: length and word count.
ParaShapes ==
    { [len |-> 400,  words |-> 70],
      [len |-> 2600, words |-> 450] }

Blank == [kind |-> "blank", numeral |-> <<>>, len |-> 0, words |-> 0]

\* "BOOK I", "BOOK IV", "CHAPTER I", "CHAPTER IV".
MarkerShapes ==
    { [kind |-> "book", numeral |-> n, len |-> 5 + Len(n), words |-> 2] :
        n \in Numerals }
    \cup
    { [kind |-> "chapter", numeral |-> n, len |-> 8 + Len(n), words |-> 2] :
        n \in Numerals }

OrdinaryShapes ==
    { [kind |-> "para", numeral |-> <<>>, len |-> s.len, words |-> s.words] :
        s \in ParaShapes }

Shapes == MarkerShapes \cup OrdinaryShapes

\* A shape at position i of the text.
At(shape, i) ==
    [kind |-> shape.kind, numeral |-> shape.numeral, len |-> shape.len,
     words |-> shape.words, src |-> i]

\* The texts explored: up to MaxParas segments; the regular expression's
\* greedy \s* leaves whitespace-only segments only before the first and
\* after the last separator.
Texts ==
    UNION { { [i \in 1..(n + lead + trail) |->
                 IF (lead = 1 /\ i = 1) \/ (trail = 1 /\ i = n + lead + 1)
                 THEN At(Blank, i)
                 ELSE At(body[i - lead], i)] :
              body \in [1..n -> Shapes] } :
            <<n, lead, trail>> \in
                { t \in (0..MaxParas) \X {0, 1} \X {0, 1} :
                    t[1] + t[2] + t[3] <= MaxParas } }

--------------------------------------------------------------------------
(* Pure functions *)

\* roman_map.get(char, 0)
RomanValue(char) ==
    CASE char = "I" -> 1
      [] char = "V" -> 5
      [] char = "X" -> 10
      [] char = "L" -> 50
      [] char = "C" -> 100
      [] char = "D" -> 500
      [] char = "M" -> 1000
      [] OTHER -> 0

\* Variant: a symbol equal to the one on its right is subtracted too.
RECURSIVE RomanLoopSubtractsEqual(_, _, _, _)
RomanLoopSubtractsEqual(s, i, result, prev_value) ==
    IF i = 0 THEN result
    ELSE LET value == RomanValue(s[i])
         IN  IF value <= prev_value
             THEN RomanLoopSubtractsEqual(s, i - 1, result - value, value)
             ELSE RomanLoopSubtractsEqual(s, i - 1, result + value, value)

\* Variant: the symbol is compared with the running result, not with the
\* value of the symbol on its right.
RECURSIVE RomanLoopComparesTotal(_, _, _, _)
RomanLoopComparesTotal(s, i, result, prev_value) ==
    IF i = 0 THEN result
    ELSE LET value == RomanValue(s[i])
         IN  IF value < result
             THEN RomanLoopComparesTotal(s, i - 1, result - value, value)
             ELSE RomanLoopComparesTotal(s, i - 1, result + value, value)

\* The loop of roman_to_int over reversed(s), from position i down to 1,
\* returning result.
RECURSIVE RomanLoop(_, _, _, _)
RomanLoop(s, i, result, prev_value) ==
    IF i = 0 THEN result
    ELSE LET value == RomanValue(s[i])
         IN  IF value < prev_value
             THEN RomanLoop(s, i - 1, result - value, value)
             ELSE RomanLoop(s, i - 1, result + value, value)

roman_to_int(s) == RomanLoop(s, Len(s), 0, 0)

\* paragraphs = [clean_text(p) for p in paragraphs if p.strip()]
split_into_paragraphs(t) == SelectSeq(t, LAMBDA p : p.kind # "blank")

RECURSIVE SumLen(_)
SumLen(ps) == IF ps = <<>> THEN 0 ELSE Head(ps).len + SumLen(Tail(ps))

RECURSIVE SumWords(_)
SumWords(ps) == IF ps = <<>> THEN 0 ELSE Head(ps).words + SumWords(Tail(ps))

\* len('\n\n'.join(paragraphs))
JoinLen(ps) == IF ps = <<>> THEN 0 ELSE SumLen(ps) + SepLen * (Len(ps) - 1)

\* estimate_word_count: len(text.split()); no paragraph has leading or
\* trailing whitespace after clean_text, so the tokens of the join are the
\* tokens of the paragraphs.
estimate_word_count(ps) == SumWords(ps)

_finalize_chunk(paras, book, chapter, index) ==
    [chunk_index     |-> index,
     book            |-> book,
     chapter         |-> chapter,
     original_text   |-> paras,
     character_count |-> JoinLen(paras),
     word_count      |-> estimate_word_count(paras),
     paragraph_count |-> Len(paras)]

--------------------------------------------------------------------------
(* The state of one call of create_chunks *)

VARIABLES
    text,             \* the argument
    config,           \* self.parsing_config
    paragraphs,       \* split_into_paragraphs(text)
    pos,              \* the paragraph the for loop is at, Len+1 after it
    pc,               \* "loop" | "done"
    chunks,
    current_chunk,
    current_size,
    current_book,
    current_chapter

vars == <<text, config, paragraphs, pos, pc, chunks, current_chunk,
          current_size, current_book, current_chapter>>

(* The state of one call of roman_to_int on its own *)
VARIABLES
    roman_s,          \* the argument s
    roman_pc,         \* "idle" | "call" | "done"
    roman_out         \* the value returned

roman_vars == <<roman_s, roman_pc, roman_out>>

(* The state of one call of a cleaning function of the recoverer *)
VARIABLES
    json_text,        \* the argument: the response text
    json_pc,          \* "idle" | "call" | the name of the function applied
    json_cleaned,     \* cleaned
    json_parsed,      \* json.loads(cleaned)
    json_repaired     \* manual_json_repair(text)

json_vars == <<json_text, json_pc, json_cleaned, json_parsed, json_repaired>>

(* The state of the recovery paths: the chunks file and the call in        *)
(* progress of enrich_chunk_with_retry, enrich_with_nuclear_option or      *)
(* enrich_single_chunk                                                     *)
VARIABLES
    chunks_file,      \* the file at paths.processed_chunks, by chunk index
    origin,           \* history: what produced each chunk's 'enriched'
    rec_pc,           \* "idle" between two calls, else the step to take
    rec_path,         \* the function called
    chunk_id,         \* its argument chunk_id / chunk_index
    max_retries,      \* its argument max_retries
    attempt,          \* the loop variable of enrich_chunk_with_retry
    response_text,    \* message.content[0].text
    cleaned,          \* the text handed to json.loads
    enriched_content, \* what json.loads returned, or that it raised
    manual_result,    \* what manual_json_repair returned
    ai_calls,         \* history: calls of messages.create in this call
    tried,            \* history: the tiers tried on response_text
    returned          \* the value returned to the caller

rec_vars == <<chunks_file, origin, rec_pc, rec_path, chunk_id, max_retries,
              attempt, response_text, cleaned, enriched_content,
              manual_result, ai_calls, tried, returned>>

\* The publisher (src/src/publisher.py, src/src/utils.py,
\* src/scripts/daily_post.py).  It reads the chunks file and keeps the
\* published log data/published/log.json.
VARIABLES
    log_exists,       \* whether data/published/log.json exists
    published,        \* log['published']: entries chunk_index, post_id
    pub_pc,           \* where the publishing call stands
    pub_caller,       \* "publish_next" or "publish_post" (daily_post --chunk)
    next_index,       \* what get_next_chunk_to_publish returned
    pub_chunk,        \* chunk['chunk_index'] of the chunk being posted
    site_posts,       \* history: the posts the site created, in order
    pub_returned      \* how the last call ended

pub_vars == <<log_exists, published, pub_pc, pub_caller, next_index,
              pub_chunk, site_posts, pub_returned>>

\* extract_main_text (src/src/parser.py), which prepares the chunker's input.
VARIABLES
    full_text,        \* its argument: the downloaded file
    main_text,        \* text after the boilerplate was removed (line 63)
    main_pc,          \* where extract_main_text stands
    main_out          \* the text it returns

main_vars == <<full_text, main_text, main_pc, main_out>>

\* remap_themes_waltz.py.
VARIABLES
    remap_chunks,     \* chunks, the list load_chunks returned
    remap_pos,        \* the chunk the loop of remap_all_themes is at
    remap_pc,         \* where the script stands
    unmapped_themes,  \* stats['unmapped_themes']
    chunks_updated,   \* stats['chunks_updated']
    themes_remapped,  \* stats['themes_remapped']
    remap_saved       \* the chunks file as main saved it

remap_vars == <<remap_chunks, remap_pos, remap_pc, unmapped_themes,
                chunks_updated, themes_remapped, remap_saved>>

\* ThucydidesEnricher.enrich_all_chunks (src/src/enricher.py).
VARIABLES
    all_pc,               \* where enrich_all_chunks stands
    all_chunks,           \* chunks, the list load_chunks returned
    start_index,          \* its argument start_index
    end_index,            \* its argument end_index, len(chunks) for None
    all_i,                \* the loop variable i
    newly_enriched_count, \* newly_enriched_count
    loaded,               \* history: the chunks as this run loaded them
    all_calls,            \* history: the chunks this run called the AI for
    runs                  \* history: the runs started

all_chunks_vars == <<all_pc, all_chunks, start_index, end_index, all_i,
                     newly_enriched_count, loaded, all_calls, runs>>

\* The state of the tools that run before and after the chunker.
tool_vars == <<pub_vars, main_vars, remap_vars, all_chunks_vars>>

\* The whole state.
all_vars == <<vars, roman_vars, json_vars, rec_vars, tool_vars>>

\* What create_chunks reads and never assigns: its argument, the
\* configuration, the paragraph list, and the state of everything else.
input == <<text, config, paragraphs, roman_vars, json_vars, rec_vars,
          tool_vars>>

Init ==
    /\ text \in Texts
    /\ config \in Configs
    /\ paragraphs = split_into_paragraphs(text)
    /\ pos = 1
    /\ pc = "loop"
    /\ chunks = <<>>
    /\ current_chunk = <<>>
    /\ current_size = 0
    /\ current_book = 1
    /\ current_chapter = 1

InLoop == pc = "loop" /\ pos <= Len(paragraphs)

para == paragraphs[pos]

\* Variant: the book marker defers to min_size as the chapter marker does.
BookFlushesAtMinSize ==
    current_chunk # <<>> /\ current_size >= config.min_size

\* if current_chunk: (line 180)
BookFlushes == current_chunk # <<>>

\* Variant: the comparison with min_size is inverted.
ChapterFlushesBelowMin ==
    current_chunk # <<>> /\ current_size < config.min_size

\* Variant: the chapter marker flushes whatever the size, as a book does.
ChapterFlushesAlways == current_chunk # <<>>

\* if current_chunk and current_size >= min_size: (line 194)
ChapterFlushes == current_chunk # <<>> /\ current_size >= config.min_size

\* Variant: the target rule is tested before the overflow rule.
OverflowsUnlessTarget ==
    /\ current_size + para.len > config.max_size
    /\ current_chunk # <<>>
    /\ ~(/\ current_size + para.len >= config.target_size
         /\ current_size >= config.min_size)

\* Variant: the size of the accumulator alone is compared with max_size.
OverflowsIgnoresParagraph ==
    current_size > config.max_size /\ current_chunk # <<>>

\* if current_size + para_len > max_size and current_chunk: (line 207)
Overflows ==
    current_size + para.len > config.max_size /\ current_chunk # <<>>

\* Variant: the target rule without the test of min_size.
TargetReachedAnySize == current_size + para.len >= config.target_size

\* elif current_size + para_len >= target_size and current_size >= min_size:
TargetReached ==
    /\ current_size + para.len >= config.target_size
    /\ current_size >= config.min_size

\* Variant: the index is taken one-based.
FlushedOneBased(accumulator) ==
    Append(chunks, _finalize_chunk(accumulator, current_book,
                                   current_chapter, Len(chunks) + 1))

\* chunks.append(self._finalize_chunk(current_chunk, current_book,
\*                                    current_chapter, len(chunks)))
Flushed(accumulator) ==
    Append(chunks, _finalize_chunk(accumulator, current_book,
                                   current_chapter, Len(chunks)))

\* The chapter in effect after a book marker: create_chunks leaves it alone.
ChapterAfterBook == current_chapter

\* Variant: the book number is updated before the accumulator is flushed.
BookMarkerUpdatesFirst ==
    /\ InLoop
    /\ para.kind = "book"
    /\ current_book' = roman_to_int(para.numeral)
    /\ IF BookFlushes
       THEN /\ chunks' = Append(chunks,
                               _finalize_chunk(current_chunk, current_book',
                                               current_chapter, Len(chunks)))
            /\ current_chunk' = <<>>
            /\ current_size' = 0
       ELSE UNCHANGED <<chunks, current_chunk, current_size>>
    /\ current_chapter' = ChapterAfterBook
    /\ pos' = pos + 1
    /\ UNCHANGED <<input, pc>>

\* A paragraph that matches BOOK\s+[IVXLCDM]+ (lines 178-190).
BookMarker ==
    /\ InLoop
    /\ para.kind = "book"
    /\ IF BookFlushes
       THEN /\ chunks' = Flushed(current_chunk)
            /\ current_chunk' = <<>>
            /\ current_size' = 0
       ELSE UNCHANGED <<chunks, current_chunk, current_size>>
    /\ current_book' = roman_to_int(para.numeral)
    /\ current_chapter' = ChapterAfterBook
    /\ pos' = pos + 1
    /\ UNCHANGED <<input, pc>>

\* A paragraph that matches CHAPTER\s+[IVXLCDM]+ (lines 192-204).
ChapterMarker ==
    /\ InLoop
    /\ para.kind = "chapter"
    /\ IF ChapterFlushes
       THEN /\ chunks' = Flushed(current_chunk)
            /\ current_chunk' = <<>>
            /\ current_size' = 0
       ELSE UNCHANGED <<chunks, current_chunk, current_size>>
    /\ current_chapter' = roman_to_int(para.numeral)
    /\ pos' = pos + 1
    /\ UNCHANGED <<input, pc, current_book>>

\* Variant: the new accumulator starts empty, without the paragraph.
OverflowDropsParagraph ==
    /\ InLoop
    /\ para.kind = "para"
    /\ Overflows
    /\ chunks' = Flushed(current_chunk)
    /\ current_chunk' = <<>>
    /\ current_size' = 0
    /\ pos' = pos + 1
    /\ UNCHANGED <<input, pc, current_book, current_chapter>>

\* Regular paragraph, the chunk would be too large (lines 207-213).
Overflow ==
    /\ InLoop
    /\ para.kind = "para"
    /\ Overflows
    /\ chunks' = Flushed(current_chunk)
    /\ current_chunk' = <<para>>
    /\ current_size' = para.len
    /\ pos' = pos + 1
    /\ UNCHANGED <<input, pc, current_book, current_chapter>>

\* Regular paragraph, good size reached (lines 214-221).
GoodSize ==
    /\ InLoop
    /\ para.kind = "para"
    /\ ~Overflows
    /\ TargetReached
    /\ chunks' = Flushed(Append(current_chunk, para))
    /\ current_chunk' = <<>>
    /\ current_size' = 0
    /\ pos' = pos + 1
    /\ UNCHANGED <<input, pc, current_book, current_chapter>>

\* Regular paragraph, added to the current chunk (lines 222-225).
AddToChunk ==
    /\ InLoop
    /\ para.kind = "para"
    /\ ~Overflows
    /\ ~TargetReached
    /\ current_chunk' = Append(current_chunk, para)
    /\ current_size' = current_size + para.len
    /\ pos' = pos + 1
    /\ UNCHANGED <<input, pc, chunks, current_book, current_chapter>>

\* Variant: the last chunk is emitted without the test for emptiness.
LastFlushesAlways == TRUE

\* if current_chunk: (line 228)
LastFlushes == current_chunk # <<>>

\* Variant: a last accumulator below min_size is merged into the passage
\* emitted before it.
LastChunkMerges ==
    /\ pc = "loop"
    /\ pos > Len(paragraphs)
    /\ chunks' =
          IF ~LastFlushes THEN chunks
          ELSE IF chunks # <<>> /\ current_size < config.min_size
          THEN [chunks EXCEPT ![Len(chunks)] =
                  _finalize_chunk(@.original_text \o current_chunk, @.book,
                                  @.chapter, @.chunk_index)]
          ELSE Flushed(current_chunk)
    /\ pc' = "done"
    /\ UNCHANGED <<input, pos, current_chunk, current_size, current_book,
                   current_chapter>>

\* After the loop: the last chunk, and return chunks (lines 227-233).
LastChunk ==
    /\ pc = "loop"
    /\ pos > Len(paragraphs)
    /\ chunks' = IF LastFlushes THEN Flushed(current_chunk) ELSE chunks
    /\ pc' = "done"
    /\ UNCHANGED <<input, pos, current_chunk, current_size, current_book,
                   current_chapter>>

Next ==
    \/ BookMarker
    \/ ChapterMarker
    \/ Overflow
    \/ GoodSize
    \/ AddToChunk
    \/ LastChunk

\* No call of create_chunks is in progress.
ChunkerIdle ==
    /\ text = <<>>
    /\ config = [target_size |-> 2500, min_size |-> 2000, max_size |-> 3000]
    /\ paragraphs = <<>>
    /\ pos = 1
    /\ pc = "idle"
    /\ chunks = <<>>
    /\ current_chunk = <<>>
    /\ current_size = 0
    /\ current_book = 1
    /\ current_chapter = 1

--------------------------------------------------------------------------
(* A call of roman_to_int on its own *)

\* The longest numeral explored among all the strings over I V X L C D M.
MaxRomanLen == 4

\* The canonical numerals explored are those of 1..MaxCanonical.
MaxCanonical == 2000

RomanSymbols == {"I", "V", "X", "L", "C", "D", "M"}

\* The standard encoding of n in subtractive notation.
RECURSIVE ToRoman(_)
ToRoman(n) ==
    IF n >= 1000 THEN <<"M">> \o ToRoman(n - 1000)
    ELSE IF n >= 900 THEN <<"C", "M">> \o ToRoman(n - 900)
    ELSE IF n >= 500 THEN <<"D">> \o ToRoman(n - 500)
    ELSE IF n >= 400 THEN <<"C", "D">> \o ToRoman(n - 400)
    ELSE IF n >= 100 THEN <<"C">> \o ToRoman(n - 100)
    ELSE IF n >= 90 THEN <<"X", "C">> \o ToRoman(n - 90)
    ELSE IF n >= 50 THEN <<"L">> \o ToRoman(n - 50)
    ELSE IF n >= 40 THEN <<"X", "L">> \o ToRoman(n - 40)
    ELSE IF n >= 10 THEN <<"X">> \o ToRoman(n - 10)
    ELSE IF n >= 9 THEN <<"I", "X">> \o ToRoman(n - 9)
    ELSE IF n >= 5 THEN <<"V">> \o ToRoman(n - 5)
    ELSE IF n >= 4 THEN <<"I", "V">> \o ToRoman(n - 4)
    ELSE IF n >= 1 THEN <<"I">> \o ToRoman(n - 1)
    ELSE <<>>

RomanInputs ==
    UNION { [1..n -> RomanSymbols] : n \in 0..MaxRomanLen }
    \cup { ToRoman(n) : n \in 1..MaxCanonical }

RomanIdle == roman_s = <<>> /\ roman_pc = "idle" /\ roman_out = 0

RomanInit == roman_s \in RomanInputs /\ roman_pc = "call" /\ roman_out = 0

\* self.roman_to_int(s)
RomanDecode ==
    /\ roman_pc = "call"
    /\ roman_out' = roman_to_int(roman_s)
    /\ roman_pc' = "done"
    /\ UNCHANGED <<roman_s, vars, json_vars, rec_vars, tool_vars>>

--------------------------------------------------------------------------
(* The response recoverer: fill_gaps_improved.py, fill_gaps_nuclear.py and *)
(* ThucydidesEnricher.enrich_chunk.                                        *)
(*                                                                         *)
(* A response text is a sequence of symbols.  A symbol is one character    *)
(* the regular expressions or the JSON grammar single out (a brace, a      *)
(* bracket, a comma, a colon, a double quote, a backslash, a space, a      *)
(* newline, a control character, the digit 1, the letter n), the code      *)
(* fence, or a word:     a run of letters, which every pattern of the      *)
(* sources treats as a whole ("json" after a fence, the three key names    *)
(* of the field scrape, and "a", "x" for any other word).                  *)

Q == "\""
BS == "\\"
SP == " "
NL == "\n"
\* The code fence, three backquotes.
FENCE == "fence"
\* One of [\x00-\x08\x0B-\x0C\x0E-\x1F\x7F].
CTRL == "^A"

\* \s, and what str.strip() removes
IsSpace(c) == c \in {SP, NL}

RECURSIVE LStrip(_)
LStrip(t) == IF t # <<>> /\ IsSpace(Head(t)) THEN LStrip(Tail(t)) ELSE t

RECURSIVE RStrip(_)
RStrip(t) ==
    IF t # <<>> /\ IsSpace(t[Len(t)])
    THEN RStrip(SubSeq(t, 1, Len(t) - 1))
    ELSE t

\* text.strip()
strip(t) == RStrip(LStrip(t))

\* re.sub(r'^FENCE(?:json)?\s*\n?', '', text), FENCE the three backquotes
StripOpeningFence(t) ==
    IF t # <<>> /\ Head(t) = FENCE
    THEN LET rest == Tail(t)
         IN  LStrip(IF rest # <<>> /\ Head(rest) = "json"
                    THEN Tail(rest) ELSE rest)
    ELSE t

\* re.sub(r'\n?FENCE\s*$', '', text): the fence that only whitespace follows,
\* with one newline before it.
StripClosingFence(t) ==
    LET r == RStrip(t)
    IN  IF r # <<>> /\ r[Len(r)] = FENCE
        THEN IF Len(r) >= 2 /\ r[Len(r) - 1] = NL
             THEN SubSeq(r, 1, Len(r) - 2)
             ELSE SubSeq(r, 1, Len(r) - 1)
        ELSE t

\* text.find(c) and text.rfind(c), zero-based, -1 when c is absent
find(t, c) ==
    IF \E i \in 1..Len(t) : t[i] = c
    THEN (CHOOSE i \in 1..Len(t) :
             t[i] = c /\ \A j \in 1..(i - 1) : t[j] # c) - 1
    ELSE -1

rfind(t, c) ==
    IF \E i \in 1..Len(t) : t[i] = c
    THEN (CHOOSE i \in 1..Len(t) :
             t[i] = c /\ \A j \in (i + 1)..Len(t) : t[j] # c) - 1
    ELSE -1

\* text[start:end+1] for start >= 0
Slice(t, start, end) == SubSeq(t, start + 1, end + 1)

\* The first position at or after i that holds no whitespace.
RECURSIVE SkipSpace(_, _)
SkipSpace(t, i) ==
    IF i <= Len(t) /\ IsSpace(t[i]) THEN SkipSpace(t, i + 1) ELSE i

\* Where a match of ,(\s*[}\]]) that starts at i ends, 0 when there is none.
TrailingCommaEnd(t, i) ==
    LET j == SkipSpace(t, i + 1)
    IN  IF t[i] = "," /\ j <= Len(t) /\ t[j] \in {"}", "]"} THEN j ELSE 0

\* re.sub(r',(\s*[}\]])', r'\1', text), from position i on: the comma is
\* dropped and group 1 kept (fill_gaps_nuclear.py, line 20).
RECURSIVE SubTrailingCommaGroup(_, _)
SubTrailingCommaGroup(t, i) ==
    IF i > Len(t) THEN <<>>
    ELSE LET j == TrailingCommaEnd(t, i)
         IN  IF j > 0
             THEN SubSeq(t, i + 1, j) \o SubTrailingCommaGroup(t, j + 1)
             ELSE <<t[i]>> \o SubTrailingCommaGroup(t, i + 1)

\* re.sub(r',(\s*[}\]])', r'\\1', text), from position i on: in the
\* template r'\\1' the backslash is escaped, so the whole match, the bracket
\* included, is replaced by a backslash and the digit 1
\* (fill_gaps_improved.py, line 35).
RECURSIVE SubTrailingCommaLiteral(_, _)
SubTrailingCommaLiteral(t, i) ==
    IF i > Len(t) THEN <<>>
    ELSE LET j == TrailingCommaEnd(t, i)
         IN  IF j > 0
             THEN <<BS, "1">> \o SubTrailingCommaLiteral(t, j + 1)
             ELSE <<t[i]>> \o SubTrailingCommaLiteral(t, i + 1)

\* re.sub of left \s*\n\s* right by left ,\n right, from position i on.
RECURSIVE InsertComma(_, _, _, _)
InsertComma(t, i, left, right) ==
    IF i > Len(t) THEN <<>>
    ELSE LET j == SkipSpace(t, i + 1)
         IN  IF /\ t[i] = left
                /\ j <= Len(t)
                /\ t[j] = right
                /\ \E k \in (i + 1)..(j - 1) : t[k] = NL
             THEN <<left, ",", NL, right>> \o InsertComma(t, j + 1, left, right)
             ELSE <<t[i]>> \o InsertComma(t, i + 1, left, right)

\* Variant of fix_json_delimiters: the repair of adjacent strings is left out.
fix_json_delimiters_no_strings(t) ==
    LET t1 == SubTrailingCommaGroup(t, 1)
        t3 == InsertComma(t1, 1, "}", Q)
    IN  InsertComma(t3, 1, "]", "[")

\* The four substitutions of fix_json_delimiters, in their order.
fix_json_delimiters(t) ==
    LET t1 == SubTrailingCommaGroup(t, 1)
        t2 == InsertComma(t1, 1, Q, Q)
        t3 == InsertComma(t2, 1, "}", Q)
    IN  InsertComma(t3, 1, "]", "[")

\* strip, the fences, strip, the span from the first to the last brace
\* when the first brace is not at position 0, the substitution of line 35.
clean_json_response(t) ==
    LET t1 == strip(StripClosingFence(StripOpeningFence(strip(t))))
        start == find(t1, "{")
        end == rfind(t1, "}")
        t2 == IF start # -1 /\ end # -1 /\ start > 0
              THEN Slice(t1, start, end) ELSE t1
    IN  SubTrailingCommaLiteral(t2, 1)

\* cleaned = re.sub(r'^[^{]*', '', cleaned)
\* cleaned = re.sub(r'[^}]*$', '', cleaned)
aggressive_clean(t) ==
    LET start == find(t, "{")
        t1 == IF start = -1 THEN <<>> ELSE SubSeq(t, start + 1, Len(t))
        end == rfind(t1, "}")
    IN  IF end = -1 THEN <<>> ELSE SubSeq(t1, 1, end + 1)

nuclear_json_clean(t) ==
    LET t1 == StripClosingFence(StripOpeningFence(strip(t)))
        start == find(t1, "{")
        end == rfind(t1, "}")
        t2 == IF start # -1 /\ end # -1 THEN Slice(t1, start, end) ELSE t1
    IN  SelectSeq(fix_json_delimiters(t2), LAMBDA c : c # CTRL)

(* json.loads, strict: an object, an array, a string or a number, with     *)
(* whitespace around the tokens; inside a string no newline and no control *)
(* character, and a backslash only before a quote, a backslash or n.  The  *)
(* value parsed is represented by its text without the whitespace between  *)
(* the tokens.                                                             *)
ParseFail == [ok |-> FALSE, next |-> 0, canon |-> <<>>]

\* The string that opens at i: where it ends, 0 when it is not terminated
\* or not valid.
RECURSIVE StringEnd(_, _)
StringEnd(t, j) ==
    IF j > Len(t) THEN 0
    ELSE IF t[j] = Q THEN j
    ELSE IF t[j] \in {NL, CTRL} THEN 0
    ELSE IF t[j] = BS
         THEN IF j + 1 <= Len(t) /\ t[j + 1] \in {Q, BS, "n"}
              THEN StringEnd(t, j + 2) ELSE 0
    ELSE StringEnd(t, j + 1)

RECURSIVE NumberEnd(_, _)
NumberEnd(t, j) ==
    IF j + 1 <= Len(t) /\ t[j + 1] = "1" THEN NumberEnd(t, j + 1) ELSE j

RECURSIVE ParseValue(_, _)
RECURSIVE ParseMembers(_, _, _)
RECURSIVE ParseElements(_, _, _)

ParseString(t, i) ==
    LET e == StringEnd(t, i + 1)
    IN  IF e = 0 THEN ParseFail
        ELSE [ok |-> TRUE, next |-> e + 1, canon |-> SubSeq(t, i, e)]

\* The members of an object from position i on, after the canon so far.
ParseMembers(t, i, sofar) ==
    LET k == SkipSpace(t, i)
    IN  IF k > Len(t) \/ t[k] # Q THEN ParseFail
        ELSE LET key == ParseString(t, k)
                 c == SkipSpace(t, key.next)
             IN  IF ~key.ok \/ c > Len(t) \/ t[c] # ":" THEN ParseFail
                 ELSE LET v == ParseValue(t, c + 1)
                          d == SkipSpace(t, v.next)
                          acc == sofar \o key.canon \o <<":">> \o v.canon
                      IN  IF ~v.ok \/ d > Len(t) THEN ParseFail
                          ELSE IF t[d] = ","
                               THEN ParseMembers(t, d + 1, acc \o <<",">>)
                          ELSE IF t[d] = "}"
                               THEN [ok |-> TRUE, next |-> d + 1,
                                     canon |-> acc \o <<"}">>]
                          ELSE ParseFail

\* The elements of an array from position i on, after the canon so far.
ParseElements(t, i, sofar) ==
    LET v == ParseValue(t, i)
        d == SkipSpace(t, v.next)
        acc == sofar \o v.canon
    IN  IF ~v.ok \/ d > Len(t) THEN ParseFail
        ELSE IF t[d] = "," THEN ParseElements(t, d + 1, acc \o <<",">>)
        ELSE IF t[d] = "]"
             THEN [ok |-> TRUE, next |-> d + 1, canon |-> acc \o <<"]">>]
        ELSE ParseFail

ParseValue(t, i) ==
    LET j == SkipSpace(t, i)
    IN  IF j > Len(t) THEN ParseFail
        ELSE IF t[j] = Q THEN ParseString(t, j)
        ELSE IF t[j] = "1"
             THEN [ok |-> TRUE, next |-> NumberEnd(t, j) + 1,
                   canon |-> SubSeq(t, j, NumberEnd(t, j))]
        ELSE IF t[j] = "{"
             THEN LET k == SkipSpace(t, j + 1)
                  IN  IF k <= Len(t) /\ t[k] = "}"
                      THEN [ok |-> TRUE, next |-> k + 1, canon |-> <<"{", "}">>]
                      ELSE ParseMembers(t, j + 1, <<"{">>)
        ELSE IF t[j] = "["
             THEN LET k == SkipSpace(t, j + 1)
                  IN  IF k <= Len(t) /\ t[k] = "]"
                      THEN [ok |-> TRUE, next |-> k + 1, canon |-> <<"[", "]">>]
                      ELSE ParseElements(t, j + 1, <<"[">>)
        ELSE ParseFail

\* json.loads(text): ok is FALSE where it raises json.JSONDecodeError.
json_loads(t) ==
    LET v == ParseValue(t, 1)
    IN  IF v.ok /\ SkipSpace(t, v.next) > Len(t)
        THEN [ok |-> TRUE, value |-> v.canon]
        ELSE [ok |-> FALSE, value |-> <<>>]

(* manual_json_repair: the three fields are searched for one by one.      *)

\* Where a match of "key"\s*:\s* followed by the symbol open, starting at
\* i, ends: the position of open, 0 when there is no match at i.
KeyOpen(t, i, key, open) ==
    IF i + 2 <= Len(t) /\ t[i] = Q /\ t[i + 1] = key /\ t[i + 2] = Q
    THEN LET c == SkipSpace(t, i + 3)
             v == SkipSpace(t, c + 1)
         IN  IF c <= Len(t) /\ t[c] = ":" /\ v <= Len(t) /\ t[v] = open
             THEN v ELSE 0
    ELSE 0

\* (?:[^"\\]|\\.)*" from position j: where the closing quote is, 0 when
\* there is none.
RECURSIVE ScrapedStringEnd(_, _)
ScrapedStringEnd(t, j) ==
    IF j > Len(t) THEN 0
    ELSE IF t[j] = Q THEN j
    ELSE IF t[j] = BS
         THEN IF j + 1 <= Len(t) THEN ScrapedStringEnd(t, j + 2) ELSE 0
    ELSE ScrapedStringEnd(t, j + 1)

\* text.replace(BS second, by), from position i on
RECURSIVE ReplaceEscape(_, _, _, _)
ReplaceEscape(t, i, second, by) ==
    IF i > Len(t) THEN <<>>
    ELSE IF t[i] = BS /\ i + 1 <= Len(t) /\ t[i + 1] = second
         THEN <<by>> \o ReplaceEscape(t, i + 2, second, by)
    ELSE <<t[i]>> \o ReplaceEscape(t, i + 1, second, by)

\* match.group(1).replace('\\"', '"').replace('\\n', '\n')
Unescape(t) == ReplaceEscape(ReplaceEscape(t, 1, Q, Q), 1, "n", NL)

NotFound == [found |-> FALSE, value |-> <<>>]

\* re.search(r'"key"\s*:\s*"((?:[^"\\]|\\.)*)"\s*,', text, re.DOTALL) from
\* position i on, and the value stored when it matches.
RECURSIVE SearchStringField(_, _, _)
SearchStringField(t, i, key) ==
    IF i > Len(t) THEN NotFound
    ELSE LET v == KeyOpen(t, i, key, Q)
             e == IF v = 0 THEN 0 ELSE ScrapedStringEnd(t, v + 1)
             c == IF e = 0 THEN 0 ELSE SkipSpace(t, e + 1)
         IN  IF e # 0 /\ c <= Len(t) /\ t[c] = ","
             THEN [found |-> TRUE, value |-> Unescape(SubSeq(t, v + 1, e - 1))]
             ELSE SearchStringField(t, i + 1, key)

\* re.findall(r'"([^"]*)"', themes_text), from position i on
RECURSIVE FindAllQuoted(_, _)
FindAllQuoted(t, i) ==
    IF i > Len(t) THEN <<>>
    ELSE IF t[i] = Q
         THEN IF \E e \in (i + 1)..Len(t) : t[e] = Q
              THEN LET e == CHOOSE e \in (i + 1)..Len(t) :
                               t[e] = Q /\ \A k \in (i + 1)..(e - 1) : t[k] # Q
                   IN  <<SubSeq(t, i + 1, e - 1)>> \o FindAllQuoted(t, e + 1)
              ELSE <<>>
    ELSE FindAllQuoted(t, i + 1)

\* re.search(r'"key_themes"\s*:\s*\[(.*?)\]', text, re.DOTALL) from
\* position i on, and the list stored when it matches.
RECURSIVE SearchThemes(_, _)
SearchThemes(t, i) ==
    IF i > Len(t) THEN NotFound
    ELSE LET v == KeyOpen(t, i, "key_themes", "[")
         IN  IF v # 0 /\ \E e \in (v + 1)..Len(t) : t[e] = "]"
             THEN LET e == CHOOSE e \in (v + 1)..Len(t) :
                              t[e] = "]" /\ \A k \in (v + 1)..(e - 1) : t[k] # "]"
                  IN  [found |-> TRUE,
                       value |-> FindAllQuoted(SubSeq(t, v + 1, e - 1), 1)]
             ELSE SearchThemes(t, i + 1)

\* The keys of result, in the order they are assigned.
FieldKeys == <<"modern_translation", "context", "key_themes">>

\* return None
NoRepair == [none |-> TRUE, matched |-> {},
             modern_translation |-> <<>>, context |-> <<>>, key_themes |-> <<>>]

\* The dictionary result: its key set and the value under each key.
Repaired(mt, ctx, themes) ==
    [none |-> FALSE,
     matched |-> {k \in {"modern_translation"} : mt.found}
                 \cup {k \in {"context"} : ctx.found}
                 \cup {k \in {"key_themes"} : themes.found},
     modern_translation |-> mt.value,
     context |-> ctx.value,
     key_themes |-> themes.value]

\* if len(result) >= 2: return result; else return None
manual_json_repair(t) ==
    LET result == Repaired(SearchStringField(t, 1, "modern_translation"),
                           SearchStringField(t, 1, "context"),
                           SearchThemes(t, 1))
    IN  IF Cardinality(result.matched) >= 2 THEN result ELSE NoRepair

(* The response texts the cleaning functions are applied to: documents   *)
(* that are valid JSON, the same documents with one defect, and both       *)
(* wrapped in a code fence, in prose or in whitespace.                     *)

\* The largest number of elements of an array of a response.
MaxElems == 2

Str(w) == <<Q, w, Q>>

Member(key, value) == Str(key) \o <<":", SP>> \o value

Object1(key, value) == <<"{">> \o Member(key, value) \o <<"}">>

\* A number, a string, an array and an object.
ElementKinds == {<<"1">>, Str("x"), <<"[", "1", "]">>, Object1("a", <<"1">>)}

\* What lies between two elements: a comma and a space or a line break ...
CommaSeps == {<<",", SP>>, <<",", NL>>}

\* ... or, the comma missing, a space, a line break, an indented line break.
BareSeps == {<<SP>>, <<NL>>, <<NL, SP>>}

\* n times the element e, seps[i] between the i-th and the next.
RECURSIVE Joined(_, _, _)
Joined(e, n, seps) ==
    IF n = 1 THEN e ELSE Joined(e, n - 1, seps) \o seps[n - 1] \o e

ArrayText(e, n, seps) == <<"[">> \o Joined(e, n, seps) \o <<"]">>

ValidArrays ==
    UNION {{ArrayText(e, n, seps) :
                e \in ElementKinds, seps \in [1..(n - 1) -> CommaSeps]} :
           n \in 1..MaxElems}

\* The array of n elements e whose only defect is the bare separator
\* after element d.
BrokenArray(e, n, seps, d, bare) == ArrayText(e, n, [seps EXCEPT ![d] = bare])

BrokenArrays ==
    UNION {{BrokenArray(e, n, seps, d, bare) :
                e \in ElementKinds, seps \in [1..(n - 1) -> CommaSeps],
                d \in 1..(n - 1), bare \in BareSeps} :
           n \in 2..MaxElems}

\* A string value with an escaped quote and an escaped line break.
Escaped == <<Q, "a", BS, Q, "x", BS, "n", Q>>

\* The members of an enrichment record.
TranslationMember == Member("modern_translation", Escaped)
ContextMember == Member("context", Str("x"))
ThemesMember ==
    Member("key_themes", <<"[">> \o Str("a") \o <<",", SP>> \o Str("x") \o <<"]">>)

\* A member that is no valid JSON: a word without quotes.
JunkMember == Member("a", <<"x">>)

\* The object made of the members ms, sep between them.
RECURSIVE JoinMembers(_, _)
JoinMembers(ms, sep) ==
    IF Len(ms) = 0 THEN <<>>
    ELSE IF Len(ms) = 1 THEN ms[1]
    ELSE ms[1] \o sep \o JoinMembers(Tail(ms), sep)

ObjectText(ms, sep) == <<"{">> \o JoinMembers(ms, sep) \o <<"}">>

\* Every subsequence of the members of an enrichment record.
FieldLists ==
    {SelectSeq(<<TranslationMember, ContextMember, ThemesMember>>,
               LAMBDA m : m \in keep) :
        keep \in SUBSET {TranslationMember, ContextMember, ThemesMember}}

\* Enrichment records, whole or with fields left out.
RecordDocs == {ObjectText(ms, sep) : ms \in FieldLists, sep \in CommaSeps}

\* The same followed or preceded by a member that does not parse.
JunkRecords ==
    {ObjectText(ms \o <<JunkMember>>, <<",", SP>>) : ms \in FieldLists}
    \cup {ObjectText(<<JunkMember>> \o ms, <<",", SP>>) : ms \in FieldLists}

\* Enrichment records whose members are on lines of their own, the commas
\* between them missing.
BareRecords == {ObjectText(ms, <<NL>>) : ms \in FieldLists \ {<<>>}}

\* Documents that strict parsing accepts.
ObjectDocs ==
    {Object1("a", v) : v \in ValidArrays \cup ElementKinds}
    \cup RecordDocs
    \cup {Object1("a", Str(",")), Object1("a", <<Q, ",", "}", Q>>),
          Object1("a", <<Q, ",", SP, "]", Q>>),
          <<"{", "}">>}

ValidDocs == ObjectDocs \cup ValidArrays \cup {<<"1">>, Str("x"), <<"[", "]">>}

\* doc with a comma before its closing brace, sp between the two.
WithTrailingComma(doc, sp) ==
    SubSeq(doc, 1, Len(doc) - 1) \o <<",">> \o sp \o <<"}">>

TrailingSpaces == {<<>>, <<NL>>}

TrailingCommaDocs ==
    {WithTrailingComma(doc, sp) :
        doc \in ObjectDocs \ {<<"{", "}">>}, sp \in TrailingSpaces}

\* An array with a comma after its last element.
TrailingCommaArrays ==
    {Object1("a", <<"[">> \o e \o <<",", "]">>) : e \in ElementKinds}

MissingCommaDocs == {Object1("a", a) : a \in BrokenArrays}

\* An object after whose nested object, or nested array, a comma is missing.
MissingCommaMembers ==
    {<<"{">> \o Member("a", v) \o <<NL>> \o Member("x", v) \o <<"}">> :
        v \in ElementKinds}

\* A control character inside a string and between the tokens.
ControlDocs ==
    {Object1("a", <<Q, "x", CTRL, Q>>), <<"{", CTRL>> \o Member("a", <<"1">>) \o <<"}">>}

\* Text that holds no JSON at all.
Prose == {<<>>, <<"a", SP, "x">>, <<"}", SP, "{">>, <<"{">>, <<"}">>}

Bare ==
    ValidDocs \cup TrailingCommaDocs \cup TrailingCommaArrays
    \cup MissingCommaDocs \cup MissingCommaMembers \cup BareRecords
    \cup JunkRecords \cup ControlDocs \cup Prose

\* The noise a response wraps its document in.
Wrapped(doc) ==
    {<<FENCE, "json", NL>> \o doc \o <<NL, FENCE>>,
     <<FENCE, NL>> \o doc \o <<NL, FENCE, NL>>,
     <<"a", ":", SP>> \o doc,
     doc \o <<SP, "a">>,
     <<NL, SP>> \o doc \o <<SP, NL>>}

Responses == Bare \cup UNION {Wrapped(doc) : doc \in Bare}

JsonIdle ==
    /\ json_text = <<>>
    /\ json_pc = "idle"
    /\ json_cleaned = <<>>
    /\ json_parsed = [ok |-> FALSE, value |-> <<>>]
    /\ json_repaired = NoRepair

JsonInit ==
    /\ json_text \in Responses
    /\ json_pc = "call"
    /\ json_cleaned = <<>>
    /\ json_parsed = [ok |-> FALSE, value |-> <<>>]
    /\ json_repaired = NoRepair

\* cleaned = clean_json_response(response_text); json.loads(cleaned)
CleanBasic ==
    /\ json_pc = "call"
    /\ json_cleaned' = clean_json_response(json_text)
    /\ json_parsed' = json_loads(clean_json_response(json_text))
    /\ json_pc' = "clean_json_response"
    /\ UNCHANGED <<json_text, json_repaired, vars, roman_vars, rec_vars,
                 tool_vars>>

\* except json.JSONDecodeError: the two substitutions on cleaned, and
\* json.loads(cleaned) again
CleanAggressive ==
    /\ json_pc = "clean_json_response"
    /\ ~json_parsed.ok
    /\ json_cleaned' = aggressive_clean(json_cleaned)
    /\ json_parsed' = json_loads(aggressive_clean(json_cleaned))
    /\ json_pc' = "aggressive"
    /\ UNCHANGED <<json_text, json_repaired, vars, roman_vars, rec_vars,
                 tool_vars>>

\* cleaned = nuclear_json_clean(response_text); json.loads(cleaned)
CleanNuclear ==
    /\ json_pc = "call"
    /\ json_cleaned' = nuclear_json_clean(json_text)
    /\ json_parsed' = json_loads(nuclear_json_clean(json_text))
    /\ json_pc' = "nuclear_json_clean"
    /\ UNCHANGED <<json_text, json_repaired, vars, roman_vars, rec_vars,
                 tool_vars>>

\* manual_result = manual_json_repair(response_text)
RepairManual ==
    /\ json_pc = "call"
    /\ json_repaired' = manual_json_repair(json_text)
    /\ json_pc' = "manual_json_repair"
    /\ UNCHANGED <<json_text, json_cleaned, json_parsed, vars, roman_vars, rec_vars,
                 tool_vars>>

(* The recovery paths.  Each is one call on one chunk of the chunks file: *)
(* a request to the AI, the tiers of cleaning and parsing of the path, and *)
(* the save of the chunk once a tier succeeded.                            *)

\* The chunks of the file.
NumChunks == 2

ChunkIds == 0..(NumChunks - 1)

\* The largest max_retries a caller passes.
MaxRetries == 2

\* What the AI answers: a record that parses as it is, in a code fence and
\* followed by prose; an object with a trailing comma; a record with a
\* member that does not parse; prose.
AIResponses ==
    {ObjectText(<<TranslationMember, ContextMember, ThemesMember>>, <<",", SP>>),
     <<FENCE, "json", NL>> \o Object1("a", <<"1">>) \o <<NL, FENCE>>,
     Object1("a", <<"1">>) \o <<SP, "a">>,
     WithTrailingComma(Object1("a", <<"1">>), <<>>),
     ObjectText(<<TranslationMember, ContextMember, JunkMember>>, <<",", SP>>),
     <<"a", SP, "x">>}

\* json.loads has not returned.
NotParsed == [ok |-> FALSE, value |-> <<>>]

\* The value of chunk['enriched']: absent, what json.loads returned, or the
\* dictionary manual_json_repair returned.
NoEnriched == [present |-> FALSE, json |-> <<>>, scraped |-> NoRepair]

ParsedRecord(content) ==
    [present |-> TRUE, json |-> content.value, scraped |-> NoRepair]

ScrapedRecord(result) == [present |-> TRUE, json |-> <<>>, scraped |-> result]

\* A chunk as the parser saved it.
Unenriched ==
    [enriched |-> NoEnriched, enrichment_model |-> "absent",
     enrichment_status |-> "absent"]

\* No value returned yet.
Pending == [kind |-> "pending", success |-> FALSE, detail |-> "none"]

\* return success, detail
Pair(success, detail) == [kind |-> "pair", success |-> success, detail |-> detail]

\* No recovery call is running.
CallIdle ==
    /\ rec_pc = "idle"
    /\ rec_path = "none"
    /\ chunk_id = 0
    /\ max_retries = 2
    /\ attempt = 0
    /\ response_text = <<>>
    /\ cleaned = <<>>
    /\ enriched_content = NotParsed
    /\ manual_result = NoRepair
    /\ ai_calls = 0
    /\ tried = <<>>
    /\ returned = Pending

RecIdle ==
    /\ chunks_file = [id \in ChunkIds |-> Unenriched]
    /\ origin = [id \in ChunkIds |-> "none"]
    /\ CallIdle

\* What every step of a recovery path leaves alone.
others == <<vars, roman_vars, json_vars, tool_vars>>

\* A call of the function path on chunk id.
Enter(path, id, retries, first) ==
    /\ rec_path' = path
    /\ chunk_id' = id
    /\ max_retries' = retries
    /\ attempt' = 0
    /\ response_text' = <<>>
    /\ cleaned' = <<>>
    /\ enriched_content' = NotParsed
    /\ manual_result' = NoRepair
    /\ ai_calls' = 0
    /\ tried' = <<>>
    /\ returned' = Pending
    /\ rec_pc' = first
    /\ UNCHANGED <<chunks_file, origin, others>>

\* message = client.messages.create(...); response_text = its text
Receive(next) ==
    /\ \E r \in AIResponses : response_text' = r
    /\ ai_calls' = ai_calls + 1
    /\ tried' = <<>>
    /\ rec_pc' = next
    /\ UNCHANGED <<chunks_file, origin, rec_path, chunk_id, max_retries,
                   attempt, cleaned, enriched_content, manual_result,
                   returned, others>>

\* cleaned = clean(response_text); enriched_content = json.loads(cleaned)
Parse(tier, candidate, onSuccess, onError) ==
    /\ cleaned' = candidate
    /\ enriched_content' = json_loads(candidate)
    /\ tried' = Append(tried, tier)
    /\ rec_pc' = IF json_loads(candidate).ok THEN onSuccess ELSE onError
    /\ UNCHANGED <<chunks_file, origin, rec_path, chunk_id, max_retries,
                   attempt, response_text, manual_result, ai_calls,
                   returned, others>>

\* return value, the file as it is
Return(value) ==
    /\ returned' = value
    /\ rec_pc' = "idle"
    /\ UNCHANGED <<chunks_file, origin, rec_path, chunk_id, max_retries,
                   attempt, response_text, cleaned, enriched_content,
                   manual_result, tried, others>>

\* chunk['enriched'] = enriched_content; chunk['enrichment_model'] = model;
\* chunks[chunk_id] = chunk; _save_enriched_chunks(chunks); return value
SaveParsed(value) ==
    /\ chunks_file' =
          [chunks_file EXCEPT ![chunk_id] =
              [@ EXCEPT !.enriched = ParsedRecord(enriched_content),
                        !.enrichment_model = "model"]]
    /\ origin' = [origin EXCEPT ![chunk_id] = "parse"]
    /\ returned' = value
    /\ rec_pc' = "idle"
    /\ UNCHANGED <<rec_path, chunk_id, max_retries, attempt, response_text,
                   cleaned, enriched_content, manual_result, ai_calls,
                   tried, others>>

(* enrich_chunk_with_retry(enricher, chunk_id, max_retries) *)

StartRetry ==
    /\ rec_pc = "idle"
    /\ \E id \in ChunkIds : \E retries \in 0..MaxRetries :
          Enter("enrich_chunk_with_retry", id, retries, "loop")

InRetry(step) == rec_path = "enrich_chunk_with_retry" /\ rec_pc = step

\* for attempt in range(max_retries): ... the request answered
RetryCall ==
    /\ InRetry("loop")
    /\ attempt < max_retries
    /\ Receive("basic")

\* Variant: a request that raised is retried like a parse failure.
RetryCallErrorRetries ==
    /\ InRetry("loop")
    /\ attempt < max_retries
    /\ ai_calls' = ai_calls + 1
    /\ attempt' = attempt + 1
    /\ UNCHANGED <<chunks_file, origin, rec_pc, rec_path, chunk_id,
                   max_retries, response_text, cleaned, enriched_content,
                   manual_result, tried, returned, others>>

\* ... the request raising: except Exception, return False, error_msg
RetryCallError ==
    /\ InRetry("loop")
    /\ attempt < max_retries
    /\ ai_calls' = ai_calls + 1
    /\ Return(Pair(FALSE, "Error"))

\* the loop over: return False, "Max retries exceeded"
RetryExhausted ==
    /\ InRetry("loop")
    /\ attempt >= max_retries
    /\ UNCHANGED ai_calls
    /\ Return(Pair(FALSE, "Max retries exceeded"))

\* cleaned = clean_json_response(response_text); json.loads(cleaned)
RetryBasic ==
    /\ InRetry("basic")
    /\ Parse("basic", clean_json_response(response_text), "save", "aggressive")

\* except json.JSONDecodeError: the aggressive cleaning; json.loads(cleaned)
RetryAggressive ==
    /\ InRetry("aggressive")
    /\ Parse("aggressive", aggressive_clean(cleaned), "save", "decode_error")

\* Success: the chunk stored, the file saved, return True, None
RetrySave ==
    /\ InRetry("save")
    /\ SaveParsed(Pair(TRUE, "None"))

\* Variant: the last attempt's parse failure stores the cleaned text.
RetryDecodeErrorStores ==
    /\ InRetry("decode_error")
    /\ IF attempt < max_retries - 1
       THEN /\ attempt' = attempt + 1
            /\ rec_pc' = "loop"
            /\ UNCHANGED <<chunks_file, origin, rec_path, chunk_id,
                           max_retries, response_text, cleaned,
                           enriched_content, manual_result, ai_calls, tried,
                           returned, others>>
       ELSE /\ UNCHANGED <<attempt, ai_calls>>
            /\ chunks_file' =
                  [chunks_file EXCEPT ![chunk_id].enriched =
                      [present |-> TRUE, json |-> cleaned, scraped |-> NoRepair]]
            /\ returned' = Pair(FALSE, "JSON parse error")
            /\ rec_pc' = "idle"
            /\ UNCHANGED <<origin, rec_path, chunk_id, max_retries,
                           response_text, cleaned, enriched_content,
                           manual_result, tried, others>>

\* except json.JSONDecodeError: continue, or on the last attempt
\* return False, error_msg
RetryDecodeError ==
    /\ InRetry("decode_error")
    /\ IF attempt < max_retries - 1
       THEN /\ attempt' = attempt + 1
            /\ rec_pc' = "loop"
            /\ UNCHANGED <<chunks_file, origin, rec_path, chunk_id,
                           max_retries, response_text, cleaned,
                           enriched_content, manual_result, ai_calls, tried,
                           returned, others>>
       ELSE /\ UNCHANGED <<attempt, ai_calls>>
            /\ Return(Pair(FALSE, "JSON parse error"))

(* enrich_with_nuclear_option(enricher, chunk_id) *)

StartNuclear ==
    /\ rec_pc = "idle"
    /\ \E id \in ChunkIds : Enter("enrich_with_nuclear_option", id, 1, "call")

InNuclear(step) == rec_path = "enrich_with_nuclear_option" /\ rec_pc = step

\* the request answered
NuclearCall ==
    /\ InNuclear("call")
    /\ Receive("clean")

\* the request raising: except Exception, return False, str(e)
NuclearCallError ==
    /\ InNuclear("call")
    /\ ai_calls' = ai_calls + 1
    /\ Return(Pair(FALSE, "str(e)"))

\* Variant: a failed parse of Strategy 1 ends the call.
NuclearCleanOnly ==
    /\ InNuclear("clean")
    /\ Parse("nuclear", nuclear_json_clean(response_text), "save", "failed")

\* Strategy 1: cleaned = nuclear_json_clean(response_text); json.loads(cleaned)
NuclearClean ==
    /\ InNuclear("clean")
    /\ Parse("nuclear", nuclear_json_clean(response_text), "save", "manual")

\* the chunk stored, the file saved, return True, "nuclear_clean"
NuclearSave ==
    /\ InNuclear("save")
    /\ SaveParsed(Pair(TRUE, "nuclear_clean"))

\* Strategy 2: manual_result = manual_json_repair(response_text)
NuclearRepair ==
    /\ InNuclear("manual")
    /\ manual_result' = manual_json_repair(response_text)
    /\ tried' = Append(tried, "manual")
    /\ rec_pc' = IF manual_json_repair(response_text).none
                 THEN "failed" ELSE "save_partial"
    /\ UNCHANGED <<chunks_file, origin, rec_path, chunk_id, max_retries,
                   attempt, response_text, cleaned, enriched_content,
                   ai_calls, returned, others>>

\* if manual_result: the chunk stored with enrichment_status 'partial', the
\* file saved, return True, "manual_repair"
NuclearSavePartial ==
    /\ InNuclear("save_partial")
    /\ chunks_file' =
          [chunks_file EXCEPT ![chunk_id] =
              [enriched |-> ScrapedRecord(manual_result),
               enrichment_model |-> "model",
               enrichment_status |-> "partial"]]
    /\ origin' = [origin EXCEPT ![chunk_id] = "scrape"]
    /\ returned' = Pair(TRUE, "manual_repair")
    /\ rec_pc' = "idle"
    /\ UNCHANGED <<rec_path, chunk_id, max_retries, attempt, response_text,
                   cleaned, enriched_content, manual_result, ai_calls,
                   tried, others>>

\* return False, "all_strategies_failed"
NuclearFail ==
    /\ InNuclear("failed")
    /\ UNCHANGED ai_calls
    /\ Return(Pair(FALSE, "all_strategies_failed"))

(* ThucydidesEnricher.enrich_single_chunk(chunk_index), which calls        *)
(* enrich_chunk(chunk) and saves the file                                  *)

StartSingle ==
    /\ rec_pc = "idle"
    /\ \E id \in ChunkIds : Enter("enrich_single_chunk", id, 1, "call")

InSingle(step) == rec_path = "enrich_single_chunk" /\ rec_pc = step

\* the request answered
EnrichCall ==
    /\ InSingle("call")
    /\ Receive("parse")

\* the request raising: except Exception, return chunk
EnrichCallError ==
    /\ InSingle("call")
    /\ ai_calls' = ai_calls + 1
    /\ rec_pc' = "save"
    /\ UNCHANGED <<chunks_file, origin, rec_path, chunk_id, max_retries,
                   attempt, response_text, cleaned, enriched_content,
                   manual_result, tried, returned, others>>

\* The cleaning of enrich_chunk: strip, the two fence substitutions, strip.
enrich_chunk_clean(t) == strip(StripClosingFence(StripOpeningFence(strip(t))))

\* enriched_content = json.loads(response_text), the fences stripped
EnrichParse ==
    /\ InSingle("parse")
    /\ Parse("fence", enrich_chunk_clean(response_text), "save", "save")

\* enrich_chunk returns the chunk, with 'enriched' and 'enrichment_model'
\* when the parse succeeded and as it was otherwise; enrich_single_chunk
\* puts it back, saves the file and returns it.
EnrichSave ==
    /\ InSingle("save")
    /\ IF enriched_content.ok
       THEN /\ chunks_file' =
                  [chunks_file EXCEPT ![chunk_id] =
                      [@ EXCEPT !.enriched = ParsedRecord(enriched_content),
                                !.enrichment_model = "model"]]
            /\ origin' = [origin EXCEPT ![chunk_id] = "parse"]
       ELSE UNCHANGED <<chunks_file, origin>>
    /\ returned' = [kind |-> "chunk", success |-> enriched_content.ok,
                    detail |-> "chunk"]
    /\ rec_pc' = "idle"
    /\ UNCHANGED <<rec_path, chunk_id, max_retries, attempt, response_text,
                   cleaned, enriched_content, manual_result, ai_calls,
                   tried, others>>

--------------------------------------------------------------------------
(* Vocabulary of the properties, computed from the input text alone *)

Last(seq) == seq[Len(seq)]

\* The paragraphs of a list of passages, in list order.
RECURSIVE Flatten(_)
Flatten(cs) ==
    IF cs = <<>> THEN <<>> ELSE Head(cs).original_text \o Flatten(Tail(cs))

IsOrdinary(p) == p.kind = "para"

\* The value of the last marker of the given kind among the first k
\* segments of the text, 1 when there is none.
RECURSIVE MarkerContext(_, _)
MarkerContext(kind, k) ==
    IF k = 0 THEN 1
    ELSE IF text[k].kind = kind THEN roman_to_int(text[k].numeral)
    ELSE MarkerContext(kind, k - 1)

\* The segments of the text the loop has completely processed.
Seen == IF pos <= Len(paragraphs) THEN paragraphs[pos].src - 1 ELSE Len(text)

\* A step that emits a passage.
Emits == Len(chunks') = Len(chunks) + 1

Documented == [target_size |-> 2500, min_size |-> 2000, max_size |-> 3000]

--------------------------------------------------------------------------
(* C1. Chunk coverage: when create_chunks returns, the paragraphs of the   *)
(* passages, taken in chunk_index order, are exactly the paragraphs of the *)
(* input in input order with only the book and chapter markers removed:    *)
(* none dropped, none duplicated.                                          *)
C1_ChunkCoverage ==
    pc = "done" =>
        /\ \A i \in 1..(Len(chunks) - 1) :
              chunks[i].chunk_index < chunks[i + 1].chunk_index
        /\ Flatten(chunks) = SelectSeq(split_into_paragraphs(text), IsOrdinary)

\* A finished run over a text with a marker between ordinary paragraphs,
\* with several passages, one of them of several paragraphs.
C1_Witness ==
    /\ pc = "done"
    /\ Len(chunks) >= 2
    /\ \E i \in 1..Len(chunks) : chunks[i].paragraph_count >= 2
    /\ \E k \in 2..(Len(text) - 1) :
          /\ text[k].kind \in {"book", "chapter"}
          /\ IsOrdinary(text[k - 1])
          /\ IsOrdinary(text[k + 1])

(* C2. Chunk size bound: when create_chunks returns, every passage but     *)
(* the last has character_count (the length of its joined text) at most    *)
(* max_size, unless it is a single paragraph that alone exceeds max_size.  *)
C2_ChunkSizeBound ==
    pc = "done" =>
        \A i \in 1..(Len(chunks) - 1) :
            \/ chunks[i].character_count <= config.max_size
            \/ /\ chunks[i].paragraph_count = 1
               /\ chunks[i].original_text[1].len > config.max_size

\* The end-to-end scenario: with sizes 2500/2000/3000, the text BOOK I, a
\* 2600-character paragraph, CHAPTER I, a 400-character paragraph.
IsScenario ==
    /\ config = Documented
    /\ Len(text) = 4
    /\ text[1].kind = "book" /\ text[1].numeral = <<"I">>
    /\ text[2].kind = "para" /\ text[2].len = 2600
    /\ text[3].kind = "chapter" /\ text[3].numeral = <<"I">>
    /\ text[4].kind = "para" /\ text[4].len = 400

(* C3, as claimed. The end-to-end scenario yields exactly one passage,     *)
(* holding both paragraphs, tagged book 1, chapter 1.                      *)
C3_ScenarioOnePassage ==
    (IsScenario /\ pc = "done") =>
        /\ Len(chunks) = 1
        /\ chunks[1].original_text = <<text[2], text[4]>>
        /\ chunks[1].book = 1
        /\ chunks[1].chapter = 1

(* C3, amended. The chapter marker finds 2600 >= min_size characters       *)
(* accumulated and flushes them, so the end-to-end scenario yields exactly *)
(* two passages, one per paragraph, both tagged book 1, chapter 1.         *)
C3_ScenarioTwoPassages ==
    (IsScenario /\ pc = "done") =>
        /\ Len(chunks) = 2
        /\ chunks[1].original_text = <<text[2]>>
        /\ chunks[2].original_text = <<text[4]>>
        /\ \A i \in 1..2 : chunks[i].book = 1 /\ chunks[i].chapter = 1

C3_Witness == IsScenario /\ pc = "done" /\ Len(chunks) = 2

(* C4. Book boundary hard cut: no passage holds paragraphs from both sides *)
(* of a book marker; all the paragraphs of a passage lie in the same book. *)
C4_BookBoundaryHardCut ==
    \A i \in 1..Len(chunks) :
        \A p, q \in { chunks[i].original_text[j] :
                        j \in 1..Len(chunks[i].original_text) } :
            /\ ~ \E k \in (p.src + 1)..(q.src - 1) : text[k].kind = "book"
            /\ MarkerContext("book", p.src) = MarkerContext("book", q.src)

\* A book marker between two ordinary paragraphs that, without it, would
\* have shared a passage: the accumulator was below min_size when cut.
C4_Witness ==
    /\ pc = "done"
    /\ \E i \in 1..(Len(chunks) - 1) :
          LET p == Last(chunks[i].original_text)
              q == chunks[i + 1].original_text[1]
          IN  /\ q.src = p.src + 2
              /\ text[p.src + 1].kind = "book"
              /\ SumLen(chunks[i].original_text) < config.min_size
              /\ SumLen(chunks[i].original_text) + q.len <= config.max_size

(* C5. Books are hard boundaries, chapters soft: a book marker flushes any *)
(* non-empty accumulator whatever its size; a chapter marker flushes the   *)
(* accumulator only when it is non-empty and holds at least min_size       *)
(* characters, and otherwise leaves it as it is, to keep growing.          *)
C5_HardAndSoft ==
    [][ /\ (InLoop /\ para.kind = "book" /\ current_chunk # <<>>) =>
              /\ Emits
              /\ Last(chunks').original_text = current_chunk
              /\ current_chunk' = <<>>
        /\ (InLoop /\ para.kind = "chapter") =>
              IF current_chunk # <<>>
                 /\ SumLen(current_chunk) >= config.min_size
              THEN /\ Emits
                   /\ Last(chunks').original_text = current_chunk
                   /\ current_chunk' = <<>>
              ELSE /\ chunks' = chunks
                   /\ current_chunk' = current_chunk
                   /\ current_size' = current_size
      ]_vars

\* A chapter marker has just left a too-small accumulator in place, after
\* a book marker had flushed a too-small one.
C5_Witness ==
    /\ pc = "loop"
    /\ pos > 1
    /\ paragraphs[pos - 1].kind = "chapter"
    /\ current_chunk # <<>>
    /\ SumLen(current_chunk) < config.min_size
    /\ Len(chunks) = 1
    /\ SumLen(chunks[1].original_text) < config.min_size
    /\ text[Last(chunks[1].original_text).src + 1].kind = "book"

\* Among the first k segments there is a book marker with no chapter
\* marker after it.
LastMarkerIsBook(k) ==
    \E b \in 1..k :
        /\ text[b].kind = "book"
        /\ \A j \in (b + 1)..k : text[j].kind # "chapter"

(* C6. A book marker resets the chapter to the default: every passage      *)
(* flushed after a book marker and before the next chapter marker carries  *)
(* chapter 1.                                                              *)
C6_BookResetsChapter ==
    [][ (Emits /\ LastMarkerIsBook(Seen)) => Last(chunks').chapter = 1 ]_vars

(* C7. The i-th passage emitted has chunk_index i, counting from 0: no     *)
(* gap, no duplicate, whatever flush emitted it.                           *)
C7_SequentialIndex ==
    \A i \in 1..Len(chunks) : chunks[i].chunk_index = i - 1

C7_Witness == pc = "done" /\ Len(chunks) >= 3

(* C8. A passage carries the (book, chapter) in effect when it is flushed: *)
(* the values of the last book marker and the last chapter marker          *)
(* processed before the flush (1 when there is none), so the book before   *)
(* the marker that flushes it, and the chapter of the last chapter marker  *)
(* its accumulator survived, not that of its first paragraph.              *)
C8_ContextAtFlush ==
    [][ Emits =>
          /\ Last(chunks').book = MarkerContext("book", Seen)
          /\ Last(chunks').chapter = MarkerContext("chapter", Seen)
      ]_vars

\* A passage flushed by a book marker of another number, whose accumulator
\* survived a chapter marker that changed the chapter.
C8_Witness ==
    \E i \in 1..Len(chunks) :
        LET first == chunks[i].original_text[1]
            last  == Last(chunks[i].original_text)
        IN  /\ chunks[i].chapter # MarkerContext("chapter", first.src)
            /\ last.src < Len(text)
            /\ text[last.src + 1].kind = "book"
            /\ chunks[i].book # roman_to_int(text[last.src + 1].numeral)

(* C9. Every passage emitted is non-empty: it joins at least one           *)
(* paragraph, paragraph_count is the number of paragraphs joined, and its  *)
(* text has characters.                                                    *)
C9_NonEmptyPassages ==
    \A i \in 1..Len(chunks) :
        /\ chunks[i].original_text # <<>>
        /\ chunks[i].paragraph_count = Len(chunks[i].original_text)
        /\ chunks[i].paragraph_count >= 1
        /\ chunks[i].character_count >= 1

\* A finished run that emitted a passage and in which a book marker, a
\* chapter marker and the end of the loop each met an empty accumulator.
C9_Witness ==
    /\ pc = "done"
    /\ Len(chunks) >= 1
    /\ current_chunk = <<>>
    /\ Len(text) >= 2
    /\ text[1].kind = "book"
    /\ text[2].kind = "chapter"

(* C10. The chunker never changes a passage after emitting it: every step *)
(* leaves the passages already in the output as they are and where they   *)
(* are; the output only grows at its end.                                  *)
C10_NoMutationAfterEmission ==
    [][ /\ Len(chunks') >= Len(chunks)
        /\ SubSeq(chunks', 1, Len(chunks)) = chunks ]_vars

\* A finished run whose last passage is short and follows another one.
C10_Witness ==
    /\ pc = "done"
    /\ Len(chunks) >= 2
    /\ Last(chunks).character_count < config.min_size

--------------------------------------------------------------------------
(* C11. roman_to_int returns the standard value of every canonical         *)
(* numeral in subtractive notation, in particular I = 1, IV = 4, IX = 9,   *)
(* XL = 40 and MCMXCIX = 1999.                                             *)

\* The value of a numeral read from the left, a subtractive pair (IV, IX,
\* XL, XC, CD, CM) counting as one symbol.
RECURSIVE PairwiseValue(_)
PairwiseValue(s) ==
    IF s = <<>> THEN 0
    ELSE IF Len(s) >= 2
            /\ <<s[1], s[2]>> \in { <<"I", "V">>, <<"I", "X">>, <<"X", "L">>,
                                   <<"X", "C">>, <<"C", "D">>, <<"C", "M">> }
         THEN RomanValue(s[2]) - RomanValue(s[1])
              + PairwiseValue(SubSeq(s, 3, Len(s)))
         ELSE RomanValue(s[1]) + PairwiseValue(Tail(s))

IsCanonical(s) == s # <<>> /\ ToRoman(PairwiseValue(s)) = s

MCMXCIX == <<"M", "C", "M", "X", "C", "I", "X">>

C11_CanonicalNumerals ==
    roman_pc = "done" =>
        /\ IsCanonical(roman_s) => roman_out = PairwiseValue(roman_s)
        /\ roman_s = <<"I">> => roman_out = 1
        /\ roman_s = <<"I", "V">> => roman_out = 4
        /\ roman_s = <<"I", "X">> => roman_out = 9
        /\ roman_s = <<"X", "L">> => roman_out = 40
        /\ roman_s = MCMXCIX => roman_out = 1999

C11_Witness == roman_pc = "done" /\ roman_s = MCMXCIX /\ roman_out = 1999

\* Right to left, a symbol is subtracted when its value is less than the
\* value accumulated so far from the symbols on its right, else added.
RECURSIVE AccumulatedRule(_, _, _)
AccumulatedRule(s, i, accumulated) ==
    IF i = 0 THEN accumulated
    ELSE IF RomanValue(s[i]) < accumulated
         THEN AccumulatedRule(s, i - 1, accumulated - RomanValue(s[i]))
         ELSE AccumulatedRule(s, i - 1, accumulated + RomanValue(s[i]))

\* The sum of the symbols from position i on, a symbol counting negative
\* when the symbol immediately on its right has a greater value.
RECURSIVE NeighbourRule(_, _)
NeighbourRule(s, i) ==
    IF i > Len(s) THEN 0
    ELSE (IF i < Len(s) /\ RomanValue(s[i]) < RomanValue(s[i + 1])
          THEN 0 - RomanValue(s[i]) ELSE RomanValue(s[i]))
         + NeighbourRule(s, i + 1)

(* C12, as claimed. For every string over I V X L C D M, canonical or not, *)
(* roman_to_int returns the result of the rule: right to left, a symbol is *)
(* subtracted when its value is less than the value already accumulated to *)
(* its right, and added otherwise.                                         *)
C12_AccumulatedRule ==
    roman_pc = "done" =>
        roman_out = AccumulatedRule(roman_s, Len(roman_s), 0)

(* C12, amended. For every string over I V X L C D M, canonical or not,    *)
(* roman_to_int rejects nothing and returns the result of the rule: a      *)
(* symbol is subtracted when its value is less than the value of the       *)
(* symbol immediately on its right, and added otherwise (so IIII gives 4). *)
C12_NeighbourRule ==
    /\ roman_pc = "call" => ENABLED RomanDecode
    /\ roman_pc = "done" =>
          /\ roman_out = NeighbourRule(roman_s, 1)
          /\ roman_s = <<"I", "I", "I", "I">> => roman_out = 4

C12_Witness ==
    roman_pc = "done" /\ roman_s = <<"I", "I", "I", "I">> /\ roman_out = 4

--------------------------------------------------------------------------
(* The recoverer's cleaning functions, one call on one response *)

(* C13. A response that is valid JSON except for one trailing comma        *)
(* immediately before its closing brace: clean_json_response returns text  *)
(* that json.loads accepts, and the value parsed is that of the document   *)
(* without the comma.                                                      *)
C13_TrailingCommaRepaired ==
    \A doc \in ObjectDocs \ {<<"{", "}">>} :
        (json_pc = "clean_json_response"
         /\ json_text = WithTrailingComma(doc, <<>>))
            => json_parsed = json_loads(doc)

Repairable(e, bare) ==
    /\ e \in {Str("x"), <<"[", "1", "]">>}
    /\ \E k \in 1..Len(bare) : bare[k] = NL

C15_CleanKeepsValidJson ==
    (json_pc = "clean_json_response" /\ json_loads(json_text).ok)
        => json_parsed = json_loads(json_text)

\* The fields the searches of manual_json_repair find in a text.
FieldsMatched(t) ==
    {k \in {"modern_translation"} : SearchStringField(t, 1, k).found}
    \cup {k \in {"context"} : SearchStringField(t, 1, k).found}
    \cup {k \in {"key_themes"} : SearchThemes(t, 1).found}

\* The responses whose enrichment fields are exactly the members ms: the
\* record itself, on one line or several, with or without its commas, and
\* the record with a member that does not parse before or after the fields.
RecordTexts(ms) ==
    {ObjectText(ms, sep) : sep \in CommaSeps \cup {<<NL>>}}
    \cup {ObjectText(ms \o <<JunkMember>>, <<",", SP>>),
          ObjectText(<<JunkMember>> \o ms, <<",", SP>>)}

(* C16. manual_json_repair returns a mapping if and only if at least two   *)
(* of the fields modern_translation, context, key_themes are matched in    *)
(* the text; a response that holds only a context field yields None; a     *)
(* response that holds modern_translation and context and no key_themes    *)
(* yields a mapping with exactly those two keys.                           *)
C16_PartialThreshold ==
    json_pc = "manual_json_repair"
        => /\ ~json_repaired.none <=> Cardinality(FieldsMatched(json_text)) >= 2
           /\ json_text \in RecordTexts(<<ContextMember>>)
                => json_repaired.none
           /\ json_text \in RecordTexts(<<TranslationMember, ContextMember>>)
                => /\ ~json_repaired.none
                   /\ json_repaired.matched = {"modern_translation", "context"}

--------------------------------------------------------------------------
(* The recovery paths and the chunks file *)

(* C17. A chunk of the file carries enrichment_status 'partial' if and     *)
(* only if its 'enriched' record was produced by manual_json_repair; a     *)
(* record stored after a successful json.loads is never tagged partial;    *)
(* and a record produced by manual_json_repair holds only those of the     *)
(* keys modern_translation, context, key_themes that were matched in the   *)
(* response.                                                               *)
C17_PartialTagIffScraped ==
    /\ \A id \in ChunkIds :
          /\ chunks_file[id].enrichment_status = "partial"
                <=> origin[id] = "scrape"
          /\ origin[id] = "parse"
                => chunks_file[id].enrichment_status # "partial"
          /\ origin[id] = "scrape"
                => chunks_file[id].enriched.scraped.matched
                   \subseteq {FieldKeys[k] : k \in 1..Len(FieldKeys)}
    /\ (rec_pc = "idle" /\ returned = Pair(TRUE, "manual_repair"))
          => /\ chunks_file[chunk_id].enriched
                = ScrapedRecord(manual_json_repair(response_text))
             /\ chunks_file[chunk_id].enriched.scraped.matched
                = FieldsMatched(response_text)

(* C18. In every recovery path the chunks file changes only in the step    *)
(* that ends a call with success, only in the chunk the call is about, and *)
(* the 'enriched' record it then holds is what json.loads returned for the *)
(* cleaned text, or the mapping manual_json_repair returned; a step in     *)
(* which a parse fails, and a call that ends in failure, leave every chunk *)
(* of the file as it was.                                                  *)
C18_NoCorruptObjectEscapes ==
    [][/\ chunks_file' # chunks_file
            => /\ rec_pc # "idle" /\ rec_pc' = "idle" /\ returned'.success
               /\ \A id \in ChunkIds \ {chunk_id} :
                      chunks_file'[id] = chunks_file[id]
               /\ \/ /\ enriched_content.ok
                     /\ enriched_content = json_loads(cleaned)
                     /\ chunks_file'[chunk_id].enriched
                            = ParsedRecord(json_loads(cleaned))
                  \/ /\ ~manual_result.none
                     /\ manual_result = manual_json_repair(response_text)
                     /\ chunks_file'[chunk_id].enriched
                            = ScrapedRecord(manual_result)
       /\ (tried' # tried /\ tried' # <<>> /\ ~enriched_content'.ok)
            => chunks_file' = chunks_file
       /\ (rec_pc # "idle" /\ rec_pc' = "idle" /\ ~returned'.success)
            => chunks_file' = chunks_file
      ]_all_vars

\* A call on an enriched chunk has failed after both its tiers, next to a
\* chunk that was never enriched.
C18_Witness ==
    /\ rec_pc = "idle"
    /\ returned = Pair(FALSE, "JSON parse error")
    /\ tried = <<"basic", "aggressive">>
    /\ chunks_file[chunk_id].enriched.present
    /\ \E id \in ChunkIds : chunks_file[id] = Unenriched

(* C19, as claimed. A failure on a response is reported to the caller only *)
(* after tier 1, tier 2, tier 3 and tier 4 have been tried on that         *)
(* response, in that order, and have all failed.                           *)
C19_AllFourTiersBeforeFailure ==
    (rec_pc = "idle" /\ returned.kind = "pair" /\ ~returned.success
     /\ tried # <<>>)
        => tried = <<"basic", "aggressive", "nuclear", "manual">>

\* The tiers a path tries, in the order it tries them.
TiersOf(path) ==
    IF path = "enrich_chunk_with_retry" THEN <<"basic", "aggressive">>
    ELSE IF path = "enrich_with_nuclear_option" THEN <<"nuclear", "manual">>
    ELSE <<"fence">>

\* The text the first tier of a path hands to json.loads.
FirstCleaned(path, t) ==
    IF path = "enrich_chunk_with_retry" THEN clean_json_response(t)
    ELSE nuclear_json_clean(t)

(* C19, amended. enrich_chunk_with_retry reports a failure on a response   *)
(* only after tier 1 and then tier 2 were tried on it and failed, and      *)
(* enrich_with_nuclear_option only after tier 3 and then tier 4 were tried *)
(* on its response and failed; no path tries more than its own two tiers   *)
(* on a response; the second tier of a path is tried only if the first     *)
(* failed; no failure is returned while a tier of the path is left.        *)
C19_TiersOfThePath ==
    rec_path \in {"enrich_chunk_with_retry", "enrich_with_nuclear_option"}
        => /\ \E n \in 0..2 : tried = SubSeq(TiersOf(rec_path), 1, n)
           /\ Len(tried) = 2
                => ~json_loads(FirstCleaned(rec_path, response_text)).ok
           /\ (rec_pc = "idle" /\ returned.kind = "pair" /\ ~returned.success
               /\ tried # <<>>)
                => /\ tried = TiersOf(rec_path)
                   /\ ~enriched_content.ok
                   /\ manual_result.none

C19_Witness ==
    /\ rec_pc = "idle"
    /\ returned = Pair(FALSE, "all_strategies_failed")
    /\ tried = <<"nuclear", "manual">>
    /\ response_text = <<"a", SP, "x">>
    /\ ~enriched_content.ok
    /\ manual_result.none

(* C20. One call of enrich_chunk_with_retry makes at most max_retries      *)
(* requests to the AI; it makes a further request only after both tiers    *)
(* failed to parse the previous response; a response that parses is saved  *)
(* and ends the call with success; a request that raises ends the call at  *)
(* once with failure; a parse failure on the last attempt ends the call    *)
(* with failure, on an earlier attempt it starts the next one; and tiers 1 *)
(* and 2 work on the same response without a request in between.          *)
C20_RetryPolicy ==
    [][(rec_path = "enrich_chunk_with_retry" /\ rec_pc # "idle")
        => /\ ai_calls' <= max_retries
           /\ ai_calls' # ai_calls
                => /\ ai_calls' = ai_calls + 1
                   /\ ai_calls = attempt
                   /\ ai_calls > 0
                        => /\ ~enriched_content.ok
                           /\ tried = <<"basic", "aggressive">>
           /\ (ai_calls' # ai_calls /\ rec_pc' # "basic")
                => /\ rec_pc' = "idle"
                   /\ returned' = Pair(FALSE, "Error")
           /\ (tried' # tried /\ tried' # <<>>)
                => /\ response_text' = response_text
                   /\ ai_calls' = ai_calls
                   /\ enriched_content'.ok => rec_pc' = "save"
           /\ rec_pc = "save"
                => /\ rec_pc' = "idle"
                   /\ returned' = Pair(TRUE, "None")
                   /\ ai_calls' = ai_calls
           /\ rec_pc = "decode_error"
                => IF attempt = max_retries - 1
                   THEN rec_pc' = "idle"
                        /\ returned' = Pair(FALSE, "JSON parse error")
                        /\ ai_calls = max_retries
                   ELSE rec_pc' = "loop"
                        /\ attempt' = attempt + 1
                        /\ ai_calls' = ai_calls
      ]_all_vars

\* The second request of a call was answered by a response that tier 2
\* parsed, after the first response failed both tiers.
C20_Witness ==
    /\ rec_path = "enrich_chunk_with_retry"
    /\ rec_pc = "idle"
    /\ returned = Pair(TRUE, "None")
    /\ max_retries = 2
    /\ attempt = 1
    /\ ai_calls = 2
    /\ tried = <<"basic", "aggressive">>
    /\ chunks_file[chunk_id].enriched = ParsedRecord(enriched_content)

--------------------------------------------------------------------------
(* The rules for an ordinary paragraph *)

\* An ordinary paragraph is about to be processed.
AtOrdinary == InLoop /\ para.kind = "para"

\* accumulated: the sum of the lengths of the paragraphs in the accumulator.
accumulated == SumLen(current_chunk)

\* C25: overflow rule: when an ordinary paragraph of length L arrives with a
\* non-empty accumulator and accumulated + L > max_size, the accumulator is
\* flushed as a passage without this paragraph and the new accumulator holds
\* exactly this paragraph with accumulated size L, also when the condition
\* of the target rule holds.
C25_OverflowRule ==
    [][ (/\ AtOrdinary
         /\ current_chunk # <<>>
         /\ accumulated + para.len > config.max_size)
        => /\ Emits
           /\ Last(chunks').original_text = current_chunk
           /\ current_chunk' = <<para>>
           /\ current_size' = para.len
           /\ pos' = pos + 1
      ]_vars

\* The overflow rule has just flushed an accumulator for which the target
\* rule's condition held as well.
C25_Witness ==
    /\ pc = "loop"
    /\ pos > 1
    /\ paragraphs[pos - 1].kind = "para"
    /\ current_chunk = <<paragraphs[pos - 1]>>
    /\ chunks # <<>>
    /\ Last(Last(chunks).original_text).src < paragraphs[pos - 1].src
    /\ SumLen(Last(chunks).original_text) + paragraphs[pos - 1].len
          > config.max_size
    /\ SumLen(Last(chunks).original_text) + paragraphs[pos - 1].len
          >= config.target_size
    /\ SumLen(Last(chunks).original_text) >= config.min_size

\* The overflow rule applies to the paragraph about to be processed.
OverflowApplies ==
    current_chunk # <<>> /\ accumulated + para.len > config.max_size

\* The target rule applies to the paragraph about to be processed.
TargetApplies ==
    /\ ~OverflowApplies
    /\ accumulated + para.len >= config.target_size
    /\ accumulated >= config.min_size

OverLong(p) == p.kind = "para" /\ p.len > config.max_size

\* C28: a paragraph whose length alone exceeds max_size is always emitted as
\* a passage that holds only that paragraph (paragraph_count = 1), whatever
\* precedes or follows it; it is never joined with another paragraph.
C28_OverLongAlone ==
    /\ \A i \in 1..Len(chunks) :
          (\E k \in 1..Len(chunks[i].original_text) :
              OverLong(chunks[i].original_text[k]))
          => /\ chunks[i].paragraph_count = 1
             /\ Len(chunks[i].original_text) = 1
    /\ (\E k \in 1..Len(current_chunk) : OverLong(current_chunk[k]))
          => Len(current_chunk) = 1
    /\ pc = "done" =>
          \A j \in 1..Len(paragraphs) :
              OverLong(paragraphs[j]) =>
                  \E i \in 1..Len(chunks) :
                      chunks[i].original_text = <<paragraphs[j]>>

\* An over-long paragraph between two short ones, and one before a marker,
\* were each emitted alone.
C28_Witness ==
    /\ pc = "done"
    /\ \E i \in 2..(Len(chunks) - 1) :
          /\ OverLong(chunks[i].original_text[1])
          /\ ~OverLong(Last(chunks[i - 1].original_text))
          /\ Last(chunks[i - 1].original_text).src
                = chunks[i].original_text[1].src - 1
          /\ ~OverLong(chunks[i + 1].original_text[1])
          /\ chunks[i + 1].original_text[1].src
                = chunks[i].original_text[1].src + 1

--------------------------------------------------------------------------
(* The publisher: publish_next, publish_post and the published log *)

\* The largest number of posts the site accepts in one run.
MaxPosts == 3

\* A chunk the enricher completed.
EnrichedChunk ==
    [Unenriched EXCEPT
        !.enriched = ParsedRecord(json_loads(
            ObjectText(<<TranslationMember, ContextMember, ThemesMember>>,
                       <<",", SP>>))),
        !.enrichment_model = "model"]

\* The chunks file load_chunks reads: any mix of enriched and unenriched
\* chunks.
ChunkFiles == [ChunkIds -> {Unenriched, EnrichedChunk}]

\* No publishing call has been made and the log file does not exist.
PubIdle ==
    /\ log_exists = FALSE
    /\ published = <<>>
    /\ pub_pc = "idle"
    /\ pub_caller = "none"
    /\ next_index = 0
    /\ pub_chunk = 0
    /\ site_posts = <<>>
    /\ pub_returned = "pending"

PubInit ==
    /\ chunks_file \in ChunkFiles
    /\ origin = [id \in ChunkIds |->
                    IF chunks_file[id].enriched.present THEN "parse" ELSE "none"]
    /\ CallIdle
    /\ PubIdle

\* max(published_indices)
RECURSIVE MaxIndex(_)
MaxIndex(entries) ==
    IF Len(entries) = 1 THEN entries[1].chunk_index
    ELSE LET rest == MaxIndex(Tail(entries))
         IN  IF entries[1].chunk_index > rest THEN entries[1].chunk_index
             ELSE rest

\* get_next_chunk_to_publish(): 0 when the log file does not exist or lists
\* nothing, else the largest published index plus one.
get_next_chunk_to_publish ==
    IF ~log_exists THEN 0
    ELSE IF published = <<>> THEN 0
    ELSE MaxIndex(published) + 1

\* mark_as_published(chunk_index, post_id): the log is loaded, or started
\* empty, one entry is appended and the log is saved.
mark_as_published(chunk_index, post_id) ==
    /\ published' = Append(published,
                           [chunk_index |-> chunk_index, post_id |-> post_id])
    /\ log_exists' = TRUE

\* A call that returns without a request to the site.
ReturnsWithoutPost(caller, value) ==
    /\ pub_caller' = caller
    /\ pub_returned' = value
    /\ UNCHANGED <<log_exists, published, pub_pc, pub_chunk, site_posts>>

\* publish_post(chunk) up to requests.post: the request is on its way.
StartsPost(caller, index) ==
    /\ Len(site_posts) < MaxPosts
    /\ pub_caller' = caller
    /\ pub_chunk' = index
    /\ pub_pc' = "post"
    /\ pub_returned' = "pending"
    /\ UNCHANGED <<log_exists, published, site_posts>>

\* What the publisher leaves alone.
unpublished == <<vars, roman_vars, json_vars, rec_vars, main_vars,
                remap_vars, all_chunks_vars>>

\* publish_next: next_index >= len(chunks), return None.
PublishNextAllDone ==
    /\ pub_pc = "idle"
    /\ get_next_chunk_to_publish >= NumChunks
    /\ next_index' = get_next_chunk_to_publish
    /\ ReturnsWithoutPost("publish_next", "None")
    /\ UNCHANGED unpublished

\* publish_next posting a chunk that has no 'enriched' field.
PublishNextPostsUnenriched ==
    /\ pub_pc = "idle"
    /\ get_next_chunk_to_publish < NumChunks
    /\ ~chunks_file[get_next_chunk_to_publish].enriched.present
    /\ next_index' = get_next_chunk_to_publish
    /\ StartsPost("publish_next", get_next_chunk_to_publish)
    /\ UNCHANGED unpublished

\* publish_next: 'enriched' not in chunk, return None.
PublishNextNotEnriched ==
    /\ pub_pc = "idle"
    /\ get_next_chunk_to_publish < NumChunks
    /\ ~chunks_file[get_next_chunk_to_publish].enriched.present
    /\ next_index' = get_next_chunk_to_publish
    /\ ReturnsWithoutPost("publish_next", "None")
    /\ UNCHANGED unpublished

\* publish_next: return self.publish_post(chunk).
PublishNextPost ==
    /\ pub_pc = "idle"
    /\ get_next_chunk_to_publish < NumChunks
    /\ chunks_file[get_next_chunk_to_publish].enriched.present
    /\ next_index' = get_next_chunk_to_publish
    /\ StartsPost("publish_next", get_next_chunk_to_publish)
    /\ UNCHANGED unpublished

\* daily_post --chunk k with k >= len(chunks): exit code 1.
PublishChunkOutOfRange ==
    /\ pub_pc = "idle"
    /\ \E k \in NumChunks..(NumChunks + 1) :
          ReturnsWithoutPost("publish_post", "1")
    /\ UNCHANGED <<next_index, unpublished>>

\* daily_post --chunk k: publisher.publish_post(chunks[k]), enriched or not.
PublishChunk ==
    /\ pub_pc = "idle"
    /\ \E k \in ChunkIds : StartsPost("publish_post", k)
    /\ UNCHANGED <<next_index, unpublished>>

\* publish_post with a failed request that is logged all the same.
PostFailsLogged ==
    /\ pub_pc = "post"
    /\ mark_as_published(pub_chunk, 0)
    /\ pub_returned' = "raised"
    /\ pub_pc' = "idle"
    /\ UNCHANGED <<pub_caller, next_index, pub_chunk, site_posts, unpublished>>

\* publish_post: requests.post or raise_for_status raises, the except
\* clause re-raises.
PostFails ==
    /\ pub_pc = "post"
    /\ pub_returned' = "raised"
    /\ pub_pc' = "idle"
    /\ UNCHANGED <<log_exists, published, pub_caller, next_index, pub_chunk,
                   site_posts, unpublished>>

\* publish_post: the site created the post but response.json() raises on its
\* body; nothing is logged and the error leaves publish_post.
PostSucceedsBadBody ==
    /\ pub_pc = "post"
    /\ site_posts' = Append(site_posts,
                            [chunk_index |-> pub_chunk, caller |-> pub_caller])
    /\ pub_returned' = "raised"
    /\ pub_pc' = "idle"
    /\ UNCHANGED <<log_exists, published, pub_caller, next_index, pub_chunk,
                   unpublished>>

\* publish_post: the site created the post; mark_as_published and return the
\* result.
PostSucceeds ==
    /\ pub_pc = "post"
    /\ site_posts' = Append(site_posts,
                            [chunk_index |-> pub_chunk, caller |-> pub_caller])
    /\ mark_as_published(pub_chunk, Len(site_posts) + 1)
    /\ pub_returned' = "result"
    /\ pub_pc' = "idle"
    /\ UNCHANGED <<pub_caller, next_index, pub_chunk, unpublished>>

\* The chunk indices that have an entry in the published log.
Logged == {published[i].chunk_index : i \in 1..Len(published)}

\* The request of the step was answered with success: the site has one post
\* more.
PostSucceeded == pub_pc = "post" /\ site_posts' # site_posts

\* The request of the step failed: the call ended and the site has no new
\* post.
PostFailed == pub_pc = "post" /\ pub_pc' = "idle" /\ site_posts' = site_posts

\* C21: publish_post appends exactly one entry for its chunk to the
\* published log, and only after the POST for that chunk succeeded; when the
\* POST fails the log is unchanged and the error propagates to the caller;
\* no step removes or alters an entry already in the log.
C21_LogAppendedOnSuccessOnly ==
    [][/\ (published' # published \/ log_exists' # log_exists) =>
            /\ PostSucceeded
            /\ Last(site_posts').chunk_index = pub_chunk
            /\ published' = Append(published,
                                   [chunk_index |-> pub_chunk,
                                    post_id |-> Len(site_posts')])
       /\ (pub_pc = "post" /\ pub_returned' = "result") =>
            /\ PostSucceeded
            /\ Len(published') = Len(published) + 1
            /\ Last(published').chunk_index = pub_chunk
       /\ PostFailed =>
            /\ UNCHANGED <<published, log_exists>>
            /\ pub_returned' = "raised"
       /\ Len(published') >= Len(published)
       /\ \A i \in 1..Len(published) : published'[i] = published[i]
      ]_all_vars

\* A request failed after two chunks were logged.
C21_Witness ==
    /\ Len(published) >= 2
    /\ pub_returned = "raised"
    /\ pub_pc = "idle"

\* C22: after any sequence of publish_next and publish_post(k) calls the
\* index get_next_chunk_to_publish selects has no entry in the published log
\* and every lower chunk index has one.
C22_NextIsLowestUnpublished ==
    pub_pc = "idle" =>
        /\ get_next_chunk_to_publish \notin Logged
        /\ \A lower \in 0..(get_next_chunk_to_publish - 1) : lower \in Logged

\* Every post the site created was made through publish_next.
OnlyPublishNext ==
    \A i \in 1..Len(site_posts) : site_posts[i].caller = "publish_next"

\* The chunks that have no 'enriched' field.
UnenrichedIds == {id \in ChunkIds : ~chunks_file[id].enriched.present}

\* C29: when the next index is at or beyond the number of chunks, or the
\* chunk there has no 'enriched' field, publish_next returns None without a
\* POST and without changing the log; so posts made by publish_next alone
\* are of enriched chunks that lie before the first unenriched chunk.
C29_PublishNextNoOp ==
    [][/\ ( /\ pub_pc = "idle"
            /\ pub_caller' = "publish_next"
            /\ pub_vars' # pub_vars
            /\ \/ get_next_chunk_to_publish >= NumChunks
               \/ ~chunks_file[get_next_chunk_to_publish].enriched.present )
          => /\ pub_pc' = "idle"
             /\ pub_returned' = "None"
             /\ UNCHANGED <<published, log_exists, site_posts>>
       /\ (PostSucceeded /\ pub_caller = "publish_next")
          => chunks_file[pub_chunk].enriched.present
       /\ OnlyPublishNext' =>
             \A i \in 1..Len(published') :
                /\ chunks_file[published'[i].chunk_index].enriched.present
                /\ \A u \in UnenrichedIds : published'[i].chunk_index < u
      ]_all_vars

\* publish_next stopped at an unenriched chunk after it had published the
\* chunk before it.
C29_Witness ==
    /\ OnlyPublishNext
    /\ Len(published) >= 1
    /\ pub_caller = "publish_next"
    /\ pub_returned = "None"
    /\ next_index < NumChunks
    /\ ~chunks_file[next_index].enriched.present

--------------------------------------------------------------------------
(* extract_main_text: boilerplate and preliminary material *)

\* The longest preliminary material in front of the first heading.
MaxPrelim == 2

\* source_config['start_marker'] and source_config['end_marker'], each a
\* string that opens a line of the downloaded file.
start_marker == <<"*", "S">>
end_marker == <<"*", "E">>

\* book_one_patterns, in the order of the list.
book_one_patterns ==
    << <<"B", "O", "O", "K", SP, "I">>,
       <<"F", "I", "R", "S", "T", SP, "B", "O", "O", "K">>,
       <<"B", "o", "o", "k", SP, "I">>,
       <<"B", "o", "o", "k", SP, "1">> >>

\* n characters of running text.
Filler(n) == [i \in 1..n |-> "x"]

\* What stands before the body: nothing, the start marker on a line that is
\* followed by one more line, the start marker on the last line but one,
\* the start marker without a line end.
Headers ==
    {<<>>,
     start_marker \o <<NL, "x", NL>>,
     start_marker \o <<NL>>,
     start_marker \o <<SP>>}

\* What stands after the body: nothing, or the end marker and a licence.
Footers == {<<>>, <<NL>> \o end_marker \o <<"x">>}

\* A heading of the body or none.
Headings == {book_one_patterns[i] : i \in 1..Len(book_one_patterns)} \cup {<<>>}

\* The lengths of the text after the headings.
TailLens == {0, 8, 40}

\* The body: preliminary material, a heading, a space, a second heading,
\* running text.
Bodies ==
    {Filler(pre) \o h1 \o <<SP>> \o h2 \o Filler(n) :
        pre \in 0..MaxPrelim, h1 \in Headings, h2 \in Headings, n \in TailLens}

FullTexts == {h \o b \o f : h \in Headers, b \in Bodies, f \in Footers}

\* t.find(p, start): the first offset at or after start where p occurs in
\* t, -1 when there is none.
find_from(t, p, start) ==
    LET hits == {i \in start..(Len(t) - Len(p)) :
                    SubSeq(t, i + 1, i + Len(p)) = p}
    IN  IF hits = {} THEN -1
        ELSE CHOOSE i \in hits : \A j \in hits : i <= j

\* extract_main_text, lines 43 to 63: full_text[start_idx:end_idx].strip()
Boilerplate(full) ==
    LET marker == find_from(full, start_marker, 0)
        line1 == find_from(full, <<NL>>, marker) + 1
        start_idx == IF marker = -1 THEN 0
                     ELSE find_from(full, <<NL>>, line1) + 1
        found_end == find_from(full, end_marker, 0)
        end_idx == IF found_end = -1 THEN Len(full) ELSE found_end
    IN  strip(SubSeq(full, start_idx + 1, end_idx))

\* The loop over book_one_patterns without the first-quarter test.
ActualStartAnywhere(t, k) ==
    LET Try[i \in 1..(Len(book_one_patterns) + 1)] ==
            IF i > Len(book_one_patterns) THEN -1
            ELSE LET idx == find_from(t, book_one_patterns[i], 0)
                 IN  IF idx # -1 THEN idx ELSE Try[i + 1]
    IN  Try[k]

\* The loop over book_one_patterns from pattern k on: the offset of the
\* first pattern of the list that occurs in the first quarter, -1 when none
\* does.
ActualStart(t, k) ==
    LET Try[i \in 1..(Len(book_one_patterns) + 1)] ==
            IF i > Len(book_one_patterns) THEN -1
            ELSE LET idx == find_from(t, book_one_patterns[i], 0)
                 IN  IF idx # -1 /\ idx < Len(t) \div 4 THEN idx
                     ELSE Try[i + 1]
    IN  Try[k]

\* extract_main_text, lines 65 to 85.
Preliminaries(t) ==
    LET actual_start == ActualStart(t, 1)
    IN  strip(IF actual_start > 0
              THEN SubSeq(t, actual_start + 1, Len(t))
              ELSE t)

MainIdle ==
    /\ full_text = <<>>
    /\ main_text = <<>>
    /\ main_pc = "idle"
    /\ main_out = <<>>

MainInit ==
    /\ full_text \in FullTexts
    /\ main_text = <<>>
    /\ main_pc = "call"
    /\ main_out = <<>>

\* What extract_main_text leaves alone.
unextracted == <<vars, roman_vars, json_vars, rec_vars, pub_vars,
                remap_vars, all_chunks_vars>>

\* Lines 43 to 63: the text between the markers.
RemoveBoilerplate ==
    /\ main_pc = "call"
    /\ main_text' = Boilerplate(full_text)
    /\ main_pc' = "book_one"
    /\ UNCHANGED <<full_text, main_out, unextracted>>

\* Lines 65 to 85: the text from the start of Book I on.
RemovePreliminaries ==
    /\ main_pc = "book_one"
    /\ main_out' = Preliminaries(main_text)
    /\ main_pc' = "done"
    /\ UNCHANGED <<full_text, main_text, unextracted>>

\* The offsets at which some book-one pattern occurs in t.
PatternOffsets(t) ==
    {find_from(t, book_one_patterns[i], 0) : i \in 1..Len(book_one_patterns)}
        \ {-1}

\* The offsets of PatternOffsets(t) that lie in the first quarter of t.
InFirstQuarter(t) == {i \in PatternOffsets(t) : i < Len(t) \div 4}

\* C23: if no book-one pattern occurs at an offset inside the first quarter
\* of the boilerplate-stripped text, extract_main_text returns that text
\* unchanged; text is removed only in front of a pattern found at a positive
\* offset within the first quarter.
C23_PreliminariesBestEffort ==
    main_pc = "done" =>
        /\ InFirstQuarter(main_text) = {} => main_out = main_text
        /\ main_out # main_text =>
              \E i \in InFirstQuarter(main_text) :
                 /\ i > 0
                 /\ main_out = SubSeq(main_text, i + 1, Len(main_text))

\* A pattern occurs, but only beyond the first quarter, and the text is
\* returned as it was.
C23_Witness ==
    /\ main_pc = "done"
    /\ PatternOffsets(main_text) # {}
    /\ InFirstQuarter(main_text) = {}
    /\ \E i \in PatternOffsets(main_text) : i > 0
    /\ main_out = main_text
    /\ main_text # <<>>

--------------------------------------------------------------------------
(* remap_themes_waltz.py: remap_theme, remap_all_themes, main *)

\* The largest number of themes of one chunk.
MaxThemes == 2

\* A string as the sequence of its characters.
UpperCase ==
    <<"A","B","C","D","E","F","G","H","I","J","K","L","M",
      "N","O","P","Q","R","S","T","U","V","W","X","Y","Z">>

LowerCase ==
    <<"a","b","c","d","e","f","g","h","i","j","k","l","m",
      "n","o","p","q","r","s","t","u","v","w","x","y","z">>

\* theme.lower()
lower(t) ==
    [i \in 1..Len(t) |->
        IF \E k \in 1..26 : UpperCase[k] = t[i]
        THEN LowerCase[CHOOSE k \in 1..26 : UpperCase[k] = t[i]]
        ELSE t[i]]

\* normalize_theme(theme)
normalize_theme(theme) == strip(lower(theme))

\* a in b, for strings
Within(a, b) == find_from(b, a, 0) # -1

\* WALTZ_THEMES, in the order of the dictionary: each category with its
\* keywords.
WALTZ_THEMES ==
    <<
      [name |->
          <<"F","e","a","r",",",SP,"H","o","n","o","r",",",SP,"a","n","d",SP,"I","n","t","e","r","e","s","t">>,
       keywords |-> <<
          <<"p","o","w","e","r">>,
          <<"p","o","w","e","r",SP,"a","n","d",SP,"j","u","s","t","i","c","e">>,
          <<"f","e","a","r",SP,"a","n","d",SP,"s","e","c","u","r","i","t","y">>,
          <<"h","o","n","o","r">>,
          <<"p","r","e","s","t","i","g","e">>,
          <<"r","e","p","u","t","a","t","i","o","n">>,
          <<"s","e","l","f","-","i","n","t","e","r","e","s","t">>,
          <<"r","a","t","i","o","n","a","l",SP,"c","h","o","i","c","e">> >>],
      [name |->
          <<"H","o","p","e",SP,"v","s",".",SP,"R","e","a","l","i","t","y">>,
       keywords |-> <<
          <<"r","h","e","t","o","r","i","c">>,
          <<"p","e","r","s","u","a","s","i","o","n">>,
          <<"r","h","e","t","o","r","i","c",SP,"a","n","d",SP,"r","e","a","l","i","t","y">>,
          <<"r","h","e","t","o","r","i","c",SP,"a","n","d",SP,"p","e","r","s","u","a","s","i","o","n">>,
          <<"r","h","e","t","o","r","i","c",SP,"a","n","d",SP,"d","i","p","l","o","m","a","t","i","c",SP,"p","e","r","s","u","a","s","i","o","n">>,
          <<"a","p","p","e","a","r","a","n","c","e",SP,"v","e","r","s","u","s",SP,"r","e","a","l","i","t","y">>,
          <<"d","e","c","e","p","t","i","o","n">>,
          <<"p","r","o","p","a","g","a","n","d","a">>,
          <<"e","x","p","e","c","t","a","t","i","o","n","s">> >>],
      [name |->
          <<"T","h","e",SP,"C","o","r","r","o","s","i","o","n",SP,"o","f",SP,"M","o","r","a","l","i","t","y">>,
       keywords |-> <<
          <<"m","o","r","a","l","i","t","y">>,
          <<"e","t","h","i","c","s">>,
          <<"j","u","s","t","i","c","e">>,
          <<"b","r","u","t","a","l","i","t","y">>,
          <<"c","r","u","e","l","t","y">>,
          <<"v","i","o","l","e","n","c","e">>,
          <<"p","l","a","g","u","e">>,
          <<"c","i","v","i","l",SP,"w","a","r">>,
          <<"s","t","a","s","i","s">>,
          <<"m","o","r","a","l",SP,"d","e","c","a","y">>,
          <<"b","r","e","a","k","d","o","w","n",SP,"o","f",SP,"n","o","r","m","s">> >>],
      [name |->
          <<"D","e","m","o","c","r","a","c","y",SP,"v","s",".",SP,"O","l","i","g","a","r","c","h","y">>,
       keywords |-> <<
          <<"d","e","m","o","c","r","a","c","y">>,
          <<"o","l","i","g","a","r","c","h","y">>,
          <<"a","t","h","e","n","i","a","n",SP,"d","e","m","o","c","r","a","c","y">>,
          <<"s","p","a","r","t","a","n",SP,"s","y","s","t","e","m">>,
          <<"p","o","l","i","t","i","c","a","l",SP,"s","y","s","t","e","m","s">>,
          <<"g","o","v","e","r","n","a","n","c","e">>,
          <<"d","e","c","i","s","i","o","n","-","m","a","k","i","n","g">>,
          <<"a","s","s","e","m","b","l","y">>,
          <<"p","o","p","u","l","a","r",SP,"r","u","l","e">>,
          <<"d","e","m","a","g","o","g","u","e","s">>,
          <<"l","e","a","d","e","r","s","h","i","p">> >>],
      [name |->
          <<"S","e","a",SP,"P","o","w","e","r",SP,"v","s",".",SP,"L","a","n","d",SP,"P","o","w","e","r">>,
       keywords |-> <<
          <<"n","a","v","a","l">>,
          <<"n","a","v","a","l",SP,"w","a","r","f","a","r","e">>,
          <<"s","e","a",SP,"p","o","w","e","r">>,
          <<"m","a","r","i","t","i","m","e">>,
          <<"f","l","e","e","t">>,
          <<"l","a","n","d",SP,"w","a","r","f","a","r","e">>,
          <<"h","o","p","l","i","t","e">>,
          <<"g","e","o","g","r","a","p","h","y">>,
          <<"g","e","o","g","r","a","p","h","y",SP,"a","n","d",SP,"s","t","r","a","t","e","g","y">>,
          <<"g","e","o","g","r","a","p","h","y",SP,"a","n","d",SP,"s","t","r","a","t","e","g","i","c",SP,"a","d","v","a","n","t","a","g","e">>,
          <<"e","n","v","i","r","o","n","m","e","n","t","a","l",SP,"d","e","t","e","r","m","i","n","i","s","m">>,
          <<"e","c","o","n","o","m","i","c",SP,"d","e","v","e","l","o","p","m","e","n","t">>,
          <<"e","c","o","n","o","m","i","c",SP,"p","o","w","e","r">>,
          <<"r","e","s","o","u","r","c","e","s">>,
          <<"w","e","a","l","t","h">> >>],
      [name |->
          <<"C","i","v","i","l",SP,"S","t","r","i","f","e",SP,"(","S","t","a","s","i","s",")">>,
       keywords |-> <<
          <<"s","t","a","s","i","s">>,
          <<"c","i","v","i","l",SP,"w","a","r">>,
          <<"i","n","t","e","r","n","a","l",SP,"c","o","n","f","l","i","c","t">>,
          <<"f","a","c","t","i","o","n">>,
          <<"p","o","l","a","r","i","z","a","t","i","o","n">>,
          <<"r","e","v","o","l","u","t","i","o","n">>,
          <<"c","l","a","s","s",SP,"c","o","n","f","l","i","c","t">>,
          <<"p","a","r","t","y",SP,"p","o","l","i","t","i","c","s">>,
          <<"d","o","m","e","s","t","i","c",SP,"c","r","i","s","i","s">> >>],
      [name |->
          <<"T","h","e",SP,"T","h","u","c","y","d","i","d","e","s",SP,"T","r","a","p">>,
       keywords |-> <<
          <<"b","a","l","a","n","c","e",SP,"o","f",SP,"p","o","w","e","r">>,
          <<"p","o","w","e","r",SP,"t","r","a","n","s","i","t","i","o","n">>,
          <<"r","i","s","i","n","g",SP,"p","o","w","e","r">>,
          <<"h","e","g","e","m","o","n","y">>,
          <<"s","t","r","u","c","t","u","r","a","l",SP,"r","e","a","l","i","s","m">>,
          <<"s","e","c","u","r","i","t","y",SP,"d","i","l","e","m","m","a">>,
          <<"p","r","e","v","e","n","t","i","v","e",SP,"w","a","r">>,
          <<"f","e","a","r",SP,"o","f",SP,"d","e","c","l","i","n","e">> >>],
      [name |->
          <<"E","m","p","i","r","e",SP,"a","n","d",SP,"H","e","g","e","m","o","n","y">>,
       keywords |-> <<
          <<"e","m","p","i","r","e">>,
          <<"i","m","p","e","r","i","a","l","i","s","m">>,
          <<"a","t","h","e","n","i","a","n",SP,"e","m","p","i","r","e">>,
          <<"h","e","g","e","m","o","n","y">>,
          <<"i","m","p","e","r","i","a","l",SP,"o","v","e","r","r","e","a","c","h">>,
          <<"e","x","p","a","n","s","i","o","n">>,
          <<"c","o","l","o","n","i","z","a","t","i","o","n">>,
          <<"c","o","l","o","n","i","a","l">>,
          <<"t","r","i","b","u","t","e">>,
          <<"s","u","b","j","e","c","t",SP,"a","l","l","i","e","s">>,
          <<"a","u","t","o","n","o","m","y">> >>],
      [name |->
          <<"P","o","w","e","r",SP,"v","s",".",SP,"J","u","s","t","i","c","e",SP,"(","M","e","l","i","a","n",SP,"P","a","r","a","d","i","g","m",")">>,
       keywords |-> <<
          <<"m","i","g","h","t",SP,"m","a","k","e","s",SP,"r","i","g","h","t">>,
          <<"r","e","a","l","p","o","l","i","t","i","k">>,
          <<"n","e","c","e","s","s","i","t","y">>,
          <<"c","o","m","p","u","l","s","i","o","n">>,
          <<"s","t","r","o","n","g",SP,"a","n","d",SP,"w","e","a","k">>,
          <<"i","n","e","q","u","a","l","i","t","y">>,
          <<"e","x","p","l","o","i","t","a","t","i","o","n">>,
          <<"j","u","s","t","i","c","e">> >>],
      [name |->
          <<"A","l","l","i","a","n","c","e",SP,"P","o","l","i","t","i","c","s">>,
       keywords |-> <<
          <<"a","l","l","i","a","n","c","e">>,
          <<"c","o","a","l","i","t","i","o","n">>,
          <<"n","e","u","t","r","a","l","i","t","y">>,
          <<"d","i","p","l","o","m","a","t","i","c",SP,"f","a","i","l","u","r","e">>,
          <<"a","l","l","i","a","n","c","e",SP,"s","y","s","t","e","m","s">>,
          <<"e","n","t","r","a","p","m","e","n","t">>,
          <<"a","b","a","n","d","o","n","m","e","n","t">>,
          <<"t","r","e","a","t","y">>,
          <<"t","h","i","r","d",SP,"p","a","r","t","y">>,
          <<"i","n","t","e","r","v","e","n","t","i","o","n">> >>],
      [name |->
          <<"E","s","c","a","l","a","t","i","o","n",SP,"D","y","n","a","m","i","c","s">>,
       keywords |-> <<
          <<"e","s","c","a","l","a","t","i","o","n">>,
          <<"s","p","i","r","a","l">>,
          <<"c","o","n","f","l","i","c","t",SP,"e","s","c","a","l","a","t","i","o","n">>,
          <<"i","n","e","v","i","t","a","b","i","l","i","t","y">>,
          <<"c","h","a","i","n",SP,"r","e","a","c","t","i","o","n">>,
          <<"d","o","m","i","n","o",SP,"e","f","f","e","c","t">>,
          <<"l","o","c","a","l",SP,"t","o",SP,"s","y","s","t","e","m","i","c">>,
          <<"u","n","i","n","t","e","n","d","e","d",SP,"c","o","n","s","e","q","u","e","n","c","e","s">> >>] >>

\* The category names.
WaltzNames == {WALTZ_THEMES[i].name : i \in 1..Len(WALTZ_THEMES)}

\* The category names in the order sorted() gives them.
SortedNames ==
    <<
      <<"A","l","l","i","a","n","c","e",SP,"P","o","l","i","t","i","c","s">>,
      <<"C","i","v","i","l",SP,"S","t","r","i","f","e",SP,"(","S","t","a","s","i","s",")">>,
      <<"D","e","m","o","c","r","a","c","y",SP,"v","s",".",SP,"O","l","i","g","a","r","c","h","y">>,
      <<"E","m","p","i","r","e",SP,"a","n","d",SP,"H","e","g","e","m","o","n","y">>,
      <<"E","s","c","a","l","a","t","i","o","n",SP,"D","y","n","a","m","i","c","s">>,
      <<"F","e","a","r",",",SP,"H","o","n","o","r",",",SP,"a","n","d",SP,"I","n","t","e","r","e","s","t">>,
      <<"H","o","p","e",SP,"v","s",".",SP,"R","e","a","l","i","t","y">>,
      <<"P","o","w","e","r",SP,"v","s",".",SP,"J","u","s","t","i","c","e",SP,"(","M","e","l","i","a","n",SP,"P","a","r","a","d","i","g","m",")">>,
      <<"S","e","a",SP,"P","o","w","e","r",SP,"v","s",".",SP,"L","a","n","d",SP,"P","o","w","e","r">>,
      <<"T","h","e",SP,"C","o","r","r","o","s","i","o","n",SP,"o","f",SP,"M","o","r","a","l","i","t","y">>,
      <<"T","h","e",SP,"T","h","u","c","y","d","i","d","e","s",SP,"T","r","a","p">> >>

\* remap_theme(old_theme): the first category of the dictionary one of whose
\* keywords lies in the normalized theme or contains it; the empty sequence
\* stands for None.
remap_theme(old_theme) ==
    LET normalized == normalize_theme(old_theme)
        matching ==
            {i \in 1..Len(WALTZ_THEMES) :
                \E k \in 1..Len(WALTZ_THEMES[i].keywords) :
                    \/ Within(WALTZ_THEMES[i].keywords[k], normalized)
                    \/ Within(normalized, WALTZ_THEMES[i].keywords[k])}
    IN  IF matching = {} THEN <<>>
        ELSE WALTZ_THEMES[CHOOSE i \in matching :
                             \A j \in matching : i <= j].name

\* The themes the enricher wrote: one that needs lower(), one that needs
\* strip(), one no keyword matches, a category name, the empty string.
OldThemes ==
    {<<"P","o","w","e","r">>,
     <<"w","a","r",SP>>,
     <<"f","a","t","e">>,
     <<"H","o","p","e",SP,"v","s",".",SP,"R","e","a","l","i","t","y">>,
     <<>>}

\* The lists chunk['enriched']['key_themes'] can hold.
ThemeLists ==
    UNION {[1..n -> OldThemes] : n \in 0..MaxThemes}

\* A chunk as remap_all_themes reads it: whether it has 'enriched', whether
\* that has 'key_themes', and the list.
ThemeChunk(has_enriched, has_key_themes, key_themes) ==
    [has_enriched |-> has_enriched, has_key_themes |-> has_key_themes,
     key_themes |-> key_themes]

ThemeChunks ==
    {ThemeChunk(FALSE, FALSE, <<>>), ThemeChunk(TRUE, FALSE, <<>>)}
        \cup {ThemeChunk(TRUE, TRUE, l) : l \in ThemeLists}

\* The chunks file: a chunk of any kind followed by a chunk of a few kinds.
ThemeFiles ==
    {<<first, second>> :
        first \in ThemeChunks,
        second \in {ThemeChunk(FALSE, FALSE, <<>>),
                    ThemeChunk(TRUE, TRUE, << <<"f","a","t","e">> >>),
                    ThemeChunk(TRUE, TRUE, << <<"P","o","w","e","r">> >>)}}

\* new_themes after the loop over old_themes.
NewThemes(old_themes) ==
    {remap_theme(old_themes[i]) : i \in 1..Len(old_themes)} \ {<<>>}

\* The old themes remap_theme maps to None.
Unmapped(old_themes) ==
    {old_themes[i] : i \in {j \in 1..Len(old_themes) :
                                remap_theme(old_themes[j]) = <<>>}}

\* stats['themes_remapped'] gained over the loop.
Remapped(old_themes) ==
    Cardinality({j \in 1..Len(old_themes) : remap_theme(old_themes[j]) # <<>>})

\* sorted(list(new_themes))
SortedList(new_themes) == SelectSeq(SortedNames, LAMBDA n : n \in new_themes)

RemapIdle ==
    /\ remap_chunks = <<>>
    /\ remap_pos = 1
    /\ remap_pc = "idle"
    /\ unmapped_themes = {}
    /\ chunks_updated = 0
    /\ themes_remapped = 0
    /\ remap_saved = <<>>

\* main after load_chunks, remap_all_themes before its loop.
RemapInit ==
    /\ remap_chunks \in ThemeFiles
    /\ remap_pos = 1
    /\ remap_pc = "loop"
    /\ unmapped_themes = {}
    /\ chunks_updated = 0
    /\ themes_remapped = 0
    /\ remap_saved = <<>>

\* What the remapper leaves alone.
unremapped == <<vars, roman_vars, json_vars, rec_vars, pub_vars, main_vars,
               all_chunks_vars>>

\* The chunk the loop of remap_all_themes is at.
ThemesInLoop == remap_pc = "loop" /\ remap_pos <= Len(remap_chunks)

\* chunk.get('enriched') and chunk['enriched'].get('key_themes') are both
\* truthy.
HasThemes(chunk) ==
    chunk.has_enriched /\ chunk.has_key_themes /\ chunk.key_themes # <<>>

\* Lines 111 and 112: continue.
RemapSkip ==
    /\ ThemesInLoop
    /\ ~HasThemes(remap_chunks[remap_pos])
    /\ remap_pos' = remap_pos + 1
    /\ UNCHANGED <<remap_chunks, remap_pc, unmapped_themes, chunks_updated,
                   themes_remapped, remap_saved, unremapped>>

\* Lines 114 to 127 with new_themes not empty: key_themes is replaced.
RemapUpdate ==
    /\ ThemesInLoop
    /\ HasThemes(remap_chunks[remap_pos])
    /\ NewThemes(remap_chunks[remap_pos].key_themes) # {}
    /\ remap_chunks' =
          [remap_chunks EXCEPT ![remap_pos].key_themes =
              SortedList(NewThemes(remap_chunks[remap_pos].key_themes))]
    /\ chunks_updated' = chunks_updated + 1
    /\ themes_remapped' =
          themes_remapped + Remapped(remap_chunks[remap_pos].key_themes)
    /\ unmapped_themes' =
          unmapped_themes \cup Unmapped(remap_chunks[remap_pos].key_themes)
    /\ remap_pos' = remap_pos + 1
    /\ UNCHANGED <<remap_pc, remap_saved, unremapped>>

\* Lines 114 to 125 with new_themes empty: the chunk keeps its key_themes.
RemapKeep ==
    /\ ThemesInLoop
    /\ HasThemes(remap_chunks[remap_pos])
    /\ NewThemes(remap_chunks[remap_pos].key_themes) = {}
    /\ unmapped_themes' =
          unmapped_themes \cup Unmapped(remap_chunks[remap_pos].key_themes)
    /\ remap_pos' = remap_pos + 1
    /\ UNCHANGED <<remap_chunks, remap_pc, chunks_updated, themes_remapped,
                   remap_saved, unremapped>>

\* remap_all_themes returns; main reports the unmapped themes and saves the
\* chunks.
RemapSave ==
    /\ remap_pc = "loop"
    /\ remap_pos > Len(remap_chunks)
    /\ remap_saved' = remap_chunks
    /\ remap_pc' = "done"
    /\ UNCHANGED <<remap_chunks, remap_pos, unmapped_themes, chunks_updated,
                   themes_remapped, unremapped>>

\* C24: after remap_all_themes every theme reported as unmapped has been
\* removed: in every chunk that has key_themes, key_themes holds only Waltz
\* category names.
C24_OnlyWaltzThemesRemain ==
    remap_pc = "done" =>
        \A i \in 1..Len(remap_saved) :
            HasThemes(remap_saved[i]) =>
                \A k \in 1..Len(remap_saved[i].key_themes) :
                    /\ remap_saved[i].key_themes[k] \in WaltzNames
                    /\ remap_saved[i].key_themes[k] \notin unmapped_themes

--------------------------------------------------------------------------
(* Tier 1 and tier 2 on a response with trailing prose *)

\* The text of the response between its first character and its last
\* closing brace.
UpToLastBrace(t) == Slice(t, 0, rfind(t, "}"))

\* The response begins with an opening brace, its text up to the last
\* closing brace is a JSON document, and prose follows that brace.
ObjectThenProse(t) ==
    /\ t # <<>>
    /\ Head(t) = "{"
    /\ rfind(t, "}") # -1
    /\ rfind(t, "}") < Len(t) - 1
    /\ json_loads(UpToLastBrace(t)).ok

\* C27: tier 1 discards the text outside the span from the first opening to
\* the last closing brace only when both exist and the first opening brace
\* is not at position 0; a response that begins with an opening brace and
\* carries prose after its last closing brace is left unextracted by tier 1,
\* fails the tier-1 parse, and is recovered by tier 2, which strips what
\* stands before the first opening and after the last closing brace of the
\* tier-1 output before it parses again.
C27_TrailingProseRecoveredByTier2 ==
    /\ (json_pc = "clean_json_response" /\ ObjectThenProse(json_text)) =>
          /\ rfind(json_cleaned, "}") < Len(json_cleaned) - 1
          /\ ~json_parsed.ok
    /\ (json_pc = "aggressive" /\ ObjectThenProse(json_text)) =>
          /\ json_parsed.ok
          /\ json_parsed.value = json_loads(UpToLastBrace(json_text)).value

--------------------------------------------------------------------------
(* ThucydidesEnricher.enrich_all_chunks(start_index, end_index) *)

\* The largest number of runs of enrich_all_chunks over one chunks file.
MaxRuns == 2

\* if newly_enriched_count % 5 == 0: save
SaveEvery == 5

\* enrich_all_chunks has not been called: the list it will load is the
\* chunks file.
AllIdle ==
    /\ all_pc = "idle"
    /\ all_chunks = chunks_file
    /\ start_index = 0
    /\ end_index = 0
    /\ all_i = 0
    /\ newly_enriched_count = 0
    /\ loaded = chunks_file
    /\ all_calls = <<>>
    /\ runs = 0

\* The chunks file before the first run: any mix of enriched and unenriched
\* chunks.
AllInit ==
    /\ chunks_file \in ChunkFiles
    /\ origin = [id \in ChunkIds |->
                    IF chunks_file[id].enriched.present THEN "parse" ELSE "none"]
    /\ CallIdle
    /\ AllIdle

\* What enrich_all_chunks leaves alone.
unenriched == <<vars, roman_vars, json_vars, pub_vars, main_vars, remap_vars,
                rec_pc, rec_path, chunk_id, max_retries, attempt,
                response_text, cleaned, enriched_content, manual_result,
                ai_calls, tried, returned>>

\* Lines 139 to 149: load_chunks, end_index defaulting to len(chunks).
EnrichAllStart ==
    /\ all_pc = "idle"
    /\ runs < MaxRuns
    /\ \E s \in 0..NumChunks, e \in {-1} \cup 0..(NumChunks + 1) :
          /\ start_index' = s
          /\ end_index' = IF e = -1 THEN NumChunks ELSE e
          /\ all_i' = s
    /\ all_chunks' = chunks_file
    /\ loaded' = chunks_file
    /\ newly_enriched_count' = 0
    /\ all_calls' = <<>>
    /\ runs' = runs + 1
    /\ all_pc' = "loop"
    /\ UNCHANGED <<chunks_file, origin, unenriched>>

\* for i in range(start_index, end_index), with the break at len(chunks)
AllInLoop == all_pc = "loop" /\ all_i < end_index /\ all_i < NumChunks

\* Variant: the loop has no test for 'enriched'.
AlreadyEnrichedNever == FALSE

\* if 'enriched' in chunk: (line 159)
AlreadyEnriched == all_chunks[all_i].enriched.present

\* Lines 159 to 161: continue.
EnrichAllSkip ==
    /\ AllInLoop
    /\ AlreadyEnriched
    /\ all_i' = all_i + 1
    /\ UNCHANGED <<all_pc, all_chunks, start_index, end_index,
                   newly_enriched_count, loaded, all_calls, runs,
                   chunks_file, origin, unenriched>>

\* Lines 168 to 173 for the list as it will be: the count, and the file
\* saved when the count is a multiple of SaveEvery.
Counted(list) ==
    /\ newly_enriched_count' = newly_enriched_count + 1
    /\ all_calls' = Append(all_calls, all_i)
    /\ all_i' = all_i + 1
    /\ IF (newly_enriched_count + 1) % SaveEvery = 0
       THEN /\ chunks_file' = list
            /\ origin' = [id \in ChunkIds |->
                            IF list[id].enriched.present
                               /\ ~chunks_file[id].enriched.present
                            THEN "parse" ELSE origin[id]]
       ELSE UNCHANGED <<chunks_file, origin>>
    /\ UNCHANGED <<all_pc, start_index, end_index, loaded, runs, unenriched>>

\* enrich_chunk(chunk) with a response that parses once its fences are
\* stripped: the chunk gets 'enriched' and 'enrichment_model'.
EnrichAllEnriches ==
    /\ AllInLoop
    /\ ~AlreadyEnriched
    /\ \E r \in AIResponses :
          /\ json_loads(enrich_chunk_clean(r)).ok
          /\ all_chunks' =
                [all_chunks EXCEPT ![all_i] =
                    [@ EXCEPT !.enriched =
                                 ParsedRecord(json_loads(enrich_chunk_clean(r))),
                              !.enrichment_model = "model"]]
    /\ Counted(all_chunks')

\* enrich_chunk(chunk) with a request that raises or a response that does
\* not parse: the chunk is returned as it was.
EnrichAllFails ==
    /\ AllInLoop
    /\ ~AlreadyEnriched
    /\ all_chunks' = all_chunks
    /\ Counted(all_chunks)

\* Lines 175 to 176: the final save.
EnrichAllFinish ==
    /\ all_pc = "loop"
    /\ ~AllInLoop
    /\ chunks_file' = all_chunks
    /\ origin' = [id \in ChunkIds |->
                    IF all_chunks[id].enriched.present
                       /\ ~chunks_file[id].enriched.present
                    THEN "parse" ELSE origin[id]]
    /\ all_pc' = "idle"
    /\ UNCHANGED <<all_chunks, start_index, end_index, all_i,
                   newly_enriched_count, loaded, all_calls, runs, unenriched>>

\* The chunks of the range of this run that had no 'enriched' field when the
\* run loaded the file.
Lacking ==
    {id \in ChunkIds :
        /\ start_index <= id
        /\ id < end_index
        /\ ~loaded[id].enriched.present}

\* The chunks this run called the AI for.
Called == {all_calls[k] : k \in 1..Len(all_calls)}

\* C30: enrich_all_chunks never calls the AI for, and never changes, a chunk
\* that already has an 'enriched' field; a chunk whose attempt failed is left
\* without 'enriched'; so a run over a range processes exactly the chunks of
\* the range that lack enrichment, each once, and leaves all others as they
\* were.
C30_EnrichAllSkipsEnriched ==
    [][ /\ \A id \in ChunkIds :
              /\ (all_chunks[id].enriched.present /\ all_pc = "loop")
                    => all_chunks'[id] = all_chunks[id]
              /\ chunks_file[id].enriched.present
                    => chunks_file'[id] = chunks_file[id]
        /\ all_calls' # all_calls /\ all_pc = "loop" =>
              /\ all_calls' = Append(all_calls, all_i)
              /\ ~all_chunks[all_i].enriched.present
              /\ ~loaded[all_i].enriched.present
              /\ all_i \notin Called
              /\ \/ all_chunks'[all_i].enriched.present
                 \/ all_chunks'[all_i] = all_chunks[all_i]
        /\ (all_pc = "loop" /\ all_pc' = "idle") =>
              /\ Called = Lacking
              /\ \A id \in ChunkIds \ Lacking : chunks_file'[id] = loaded[id]
              /\ \A id \in Lacking :
                    \/ chunks_file'[id] = loaded[id]
                    \/ chunks_file'[id].enriched.present
      ]_all_vars

\* A second run has ended: it skipped the chunk the first run enriched and
\* tried again the chunk whose attempt had failed, which still has no
\* 'enriched' field.
C30_Witness ==
    /\ all_pc = "idle"
    /\ runs = 2
    /\ \E done \in ChunkIds, failed \in ChunkIds :
          /\ loaded[done].enriched.present
          /\ loaded[done].enriched.json = json_loads(Object1("a", <<"1">>)).value
          /\ chunks_file[done] = loaded[done]
          /\ start_index <= done /\ done < end_index
          /\ done \notin Called
          /\ failed \in Called
          /\ ~chunks_file[failed].enriched.present

--------------------------------------------------------------------------
(* The specifications *)

\* One call of create_chunks.
\* No tool that runs after the chunker has started.
ToolsIdle == PubIdle /\ MainIdle /\ RemapIdle /\ AllIdle

InitChunker == Init /\ RomanIdle /\ JsonIdle /\ RecIdle /\ ToolsIdle

Spec == InitChunker /\ [][Next]_all_vars

\* One call of roman_to_int.
InitRoman == ChunkerIdle /\ RomanInit /\ JsonIdle /\ RecIdle /\ ToolsIdle

NextRoman == RomanDecode

SpecRoman == InitRoman /\ [][NextRoman]_all_vars

\* One call of a cleaning function on one response.
InitClean == ChunkerIdle /\ RomanIdle /\ JsonInit /\ RecIdle /\ ToolsIdle

NextClean ==
    \/ CleanBasic
    \/ CleanAggressive
    \/ CleanNuclear
    \/ RepairManual

SpecClean == InitClean /\ [][NextClean]_all_vars

\* Calls of the recovery paths, one after the other, on the chunks file.
InitRecover == ChunkerIdle /\ RomanIdle /\ JsonIdle /\ RecIdle /\ ToolsIdle

NextRecover ==
    \/ StartRetry
    \/ RetryCall
    \/ RetryCallError
    \/ RetryExhausted
    \/ RetryBasic
    \/ RetryAggressive
    \/ RetrySave
    \/ RetryDecodeError
    \/ StartNuclear
    \/ NuclearCall
    \/ NuclearCallError
    \/ NuclearClean
    \/ NuclearSave
    \/ NuclearRepair
    \/ NuclearSavePartial
    \/ NuclearFail
    \/ StartSingle
    \/ EnrichCall
    \/ EnrichCallError
    \/ EnrichParse
    \/ EnrichSave

SpecRecover == InitRecover /\ [][NextRecover]_all_vars

InitPublish == ChunkerIdle /\ RomanIdle /\ JsonIdle /\ PubInit /\ MainIdle /\ RemapIdle /\ AllIdle

NextPublish ==
    \/ PublishNextAllDone
    \/ PublishNextNotEnriched
    \/ PublishNextPost
    \/ PublishChunkOutOfRange
    \/ PublishChunk
    \/ PostFails
    \/ PostSucceedsBadBody
    \/ PostSucceeds

SpecPublish == InitPublish /\ [][NextPublish]_all_vars

InitMain == ChunkerIdle /\ RomanIdle /\ JsonIdle /\ RecIdle /\ PubIdle /\ MainInit /\ RemapIdle /\ AllIdle

NextMain ==
    \/ RemoveBoilerplate
    \/ RemovePreliminaries

SpecMain == InitMain /\ [][NextMain]_all_vars

InitRemap == ChunkerIdle /\ RomanIdle /\ JsonIdle /\ RecIdle /\ PubIdle /\ MainIdle /\ RemapInit /\ AllIdle

NextRemap ==
    \/ RemapSkip
    \/ RemapUpdate
    \/ RemapKeep
    \/ RemapSave

SpecRemap == InitRemap /\ [][NextRemap]_all_vars

InitEnrichAll == ChunkerIdle /\ RomanIdle /\ JsonIdle /\ PubIdle /\ MainIdle /\ RemapIdle /\ AllInit

NextEnrichAll ==
    \/ EnrichAllStart
    \/ EnrichAllSkip
    \/ EnrichAllEnriches
    \/ EnrichAllFails
    \/ EnrichAllFinish

SpecEnrichAll == InitEnrichAll /\ [][NextEnrichAll]_all_vars

==========================================================================
